---- MODULE Spec2Model ----
(***************************************************************************)
(* A model of the backup/restore engine of autostash-linux                 *)
(* (src/core/backup_logic.py, class BackupManager) and of its scheduler    *)
(* (src/core/scheduler.py).                                                *)
(*                                                                         *)
(* The module holds several specifications over one set of variables, one  *)
(* per part of the engine:                                                 *)
(*   SpecHistory   the History Ledger driven by backup runs, merges and    *)
(*                 repairs, from a fresh installation                      *)
(*   SpecMerge     merge and repair from arbitrary ledger contents         *)
(*   SpecPackage   _process_backup_files, step by step                     *)
(*   SpecRetention cleanup_old_backups on a linear history                 *)
(*   SpecRoundTrip staging, packaging and restore of paths                 *)
(*   SpecRun       BackupManager.run, step by step                         *)
(*   SpecRestore   restore of a snapshot's files                           *)
(*   SpecSystem    _backup_system_files                                    *)
(*   SpecArchive   restore of encrypted folder archives                    *)
(*   SpecPrepare   _prepare_repo, step by step                             *)
(*   SpecScheduler setup_schedule, remove_schedule and the schedule thread *)
(* A specification leaves the variables of the other parts at their idle   *)
(* values.                                                                 *)
(***************************************************************************)
EXTENDS Integers, Sequences, FiniteSets, TLC

VARIABLES
    \* ---- History Ledger (backup_history files and their git state)
    localLedger,    \* ~/.autostash/backup_history
    repoLedger,     \* <repo_path>/backup_history in the working copy
    headLedger,     \* backup_history as committed at the local HEAD
    remoteLedger,   \* backup_history as pushed to the remote
    repoHandle,     \* self.repo: "none" (None), "clone" (Repo at repo_path), "restore" (Repo below it)
    lastBackup,     \* ~/.autostash/last_backup: 0 = absent, else the minute written
    nowMin,         \* the wall clock, in minutes (strftime("%Y%m%d_%H%M"))
    lastOp,         \* what the last ledger operation did
    prevOp,         \* what the one before it did
    opCount,        \* operations performed
    \* ---- _process_backup_files (the packager)
    pkPc,           \* where the call stands
    pkCompress,     \* its compress argument
    pkEncrypt,      \* its encrypt argument
    pkKeys,         \* keys self.gpg.list_keys() returns
    pkTodo,         \* staged subfolders os.listdir has not yet yielded
    pkCur,          \* the subfolder being processed (0: none)
    pkPlain,        \* per subfolder, the staged files present as plaintext
    pkEnc,          \* per subfolder, the staged files whose .gpg sibling exists
    pkTar,          \* per subfolder, backup.tar.gz: none, whole, partial, removed
    pkTarGpg,       \* per subfolder, whether backup.tar.gz.gpg exists
    pkFileTodo,     \* files os.walk has listed and the loop has not yet visited
    pkCurFile,      \* the file being encrypted (0: none)
    pkMeta,         \* content of <staging>/metadata.json
    pkMetaTmp,      \* content of <staging>/metadata.json.tmp
    pkMeta0,        \* content of the manifest when packaging started
    \* ---- cleanup_old_backups (retention by age) on a linear history
    rtnPc,          \* where the call stands
    rtnDates,       \* committed_date of each commit, in days; commit 1 is the root
    rtnDays,        \* the retention_days argument
    rtnHead,        \* the commit the local branch points to
    rtnRemote,      \* the commit the remote branch points to
    rtnNext,        \* the commit of list(iter_commits()) the loop visits next
    rtnRemoved,     \* result["removed"]
    rtnPushFailed,  \* whether a push --force of this call failed
    rtnAll,         \* retention_days is None
    rtnLedger,      \* ~/.autostash/backup_history exists
    rtnMarker,      \* ~/.autostash/last_backup exists
    rtnWiped,       \* the work tree holds nothing but .git
    rtnCommitted,   \* "Cleanup: Remove all backups" was committed
    rtnForced,      \* and force-pushed
    \* ---- paths through staging, packaging and restore
    rtPc,           \* backup staged, packaged, restored
    rtFolders,      \* the folders argument of run: a sequence of absolute paths
    rtOpts,         \* backup_system, encrypt, compress, incremental
    rtStaged,       \* files in the snapshot directory: path below it, content
    rtArchives,     \* backup.tar.gz[.gpg] files in the snapshot directory
    rtManifest,     \* metadata['folders']: staged name -> original path
    rtRestored,     \* files restore has written: absolute path, content
    \* ---- one call of run, step by step
    runPc,          \* position in run
    runFolders,     \* number of folders given; folder i is the i-th
    runOpts,        \* backup_system, compress, encrypt
    runInputs,      \* what the validation of lines 51-61 finds
    runKeys,        \* number of keys gpg.list_keys() returns
    runSameSnapshot, \* the clone already holds this snapshot unchanged (nothing to commit)
    runHasLedger,   \* the remote repository holds a backup_history file
    runClone0,      \* ~/.autostash_repo when run is called
    runClone,       \* ~/.autostash_repo: "none", "old" or "fresh"
    runBound,       \* 'backup_folder_path' in locals()
    runStaging,     \* the run's Backup_<timestamp>_<names> directory exists
    runStaged,      \* folders copied below it
    runIdx,         \* the folder the loop is at
    runGit,         \* git operations the run has performed, in order
    runCalls,       \* calls _git_commit_push has made, in order, with their results
    runMarker,      \* the run has written ~/.autostash/last_backup
    runAppended,    \* the run has appended its entry to the local ledger
    runAppendedRepo, \* and to the ledger in the clone
    runError,       \* the step whose exception ends the run, "" if none
    runCleanupFailed, \* shutil.rmtree of the handler raised (and was swallowed)
    runCompleted,   \* completed: steps (folders, system files) done
    runProgress,    \* values progress_callback has received, in order
    \* ---- restore of a plain tree, file by file
    rsPc,           \* where the call stands
    rsKinds,        \* per file of the tree: stored as is ("plain") or as .gpg ("gpg")
    rsSudo,         \* the original path is /etc or below it
    rsNext,         \* the file the loop visits next
    rsRestored,     \* files_restored
    rsFailed,       \* len(failed_files)
    rsBad,          \* files that could not be copied or decrypted
    rsWritten,      \* per file, what was written at its destination
    \* ---- _backup_system_files, file by file
    syPc,           \* where the call stands
    syKinds,        \* per file of critical_files: ok, missing, denied, fails
    syNext,         \* the file the loop visits next
    syAttempted,    \* files whose copy was attempted
    syCopied,       \* files present below system_backup_path
    \* ---- restore of folders stored as encrypted archives, step by step
    arPc,           \* where the folder loop stands
    arFolders,      \* folders of the manifest, each holding backup.tar.gz.gpg
    arNext,         \* the folder the loop is at
    arSudo,         \* the original paths are /etc or below it
    arTemp,         \* /tmp/temp_backup.tar.gz exists
    arRaised,       \* the call of the current folder's step that raised, "" if none
    arDone,         \* folders whose step ended without an exception
    arFailed,       \* folders whose step ended in the handler of lines 1075-1078, with the call that raised
    \* ---- _prepare_repo, step by step
    prPc,           \* where the call stands
    prName,         \* the repo_name argument: "ok" or "malformed" (no owner/name separator)
    prWork0,        \* ~/.autostash_repo when the call starts: absent, or the items in it
    prWork,         \* ~/.autostash_repo now
    prRemote0,      \* items the remote repository holds when the call starts
    prRemote,       \* items the remote repository holds now
    prGit,          \* git operations the call has performed, in order
    \* ---- Scheduler (src/core/scheduler.py)
    running,        \* self.running
    current_schedule, \* self.current_schedule: a configuration, or NoSchedule
    script_path,    \* self.script_path, 0 before the first setup_schedule
    schedule_thread, \* self.schedule_thread: the call that made it, 0 for None
    scPc,           \* where the caller stands in setup_schedule or remove_schedule
    scCalls,        \* calls made so far; a thread is known by the call that made it
    scArg,          \* the arguments of the call in progress
    scLast,         \* the last call that has ended, and how
    scRemoved,      \* the last remove_schedule call that has returned
    thPc,           \* where each schedule thread stands in _run_schedule
    thRead,         \* what each thread has read of the configuration in this turn of the loop
    scLaunch        \* the last backup subprocess launched

ledVars == <<localLedger, repoLedger, headLedger, remoteLedger, repoHandle,
             lastBackup, nowMin, lastOp, prevOp, opCount>>

pkgVars == <<pkPc, pkCompress, pkEncrypt, pkKeys, pkTodo, pkCur, pkPlain, pkEnc,
             pkTar, pkTarGpg, pkFileTodo, pkCurFile, pkMeta, pkMetaTmp, pkMeta0>>

retVars == <<rtnPc, rtnDates, rtnDays, rtnHead, rtnRemote, rtnNext, rtnRemoved,
             rtnPushFailed, rtnAll, rtnLedger, rtnMarker, rtnWiped, rtnCommitted, rtnForced>>

tripVars == <<rtPc, rtFolders, rtOpts, rtStaged, rtArchives, rtManifest, rtRestored>>

runVars == <<runPc, runFolders, runOpts, runInputs, runKeys, runSameSnapshot, runHasLedger,
             runClone0, runClone, runBound, runStaging, runStaged, runIdx, runGit, runCalls,
             runMarker, runAppended, runAppendedRepo, runError, runCleanupFailed,
             runCompleted, runProgress>>

restVars == <<rsPc, rsKinds, rsSudo, rsNext, rsRestored, rsFailed, rsBad, rsWritten>>

sysVars == <<syPc, syKinds, syNext, syAttempted, syCopied>>

arcVars == <<arPc, arFolders, arNext, arSudo, arTemp, arRaised, arDone, arFailed>>

prepVars == <<prPc, prName, prWork0, prWork, prRemote0, prRemote, prGit>>

schVars == <<running, current_schedule, script_path, schedule_thread, scPc, scCalls, scArg, scLast, scRemoved, thPc, thRead, scLaunch>>

vars == <<ledVars, pkgVars, retVars, tripVars, runVars, restVars, sysVars, arcVars, prepVars, schVars>>

\* what the actions of one part leave alone
exceptLedger == <<pkgVars, retVars, tripVars, runVars, restVars, sysVars, arcVars, prepVars, schVars>>

exceptPackage == <<ledVars, retVars, tripVars, runVars, restVars, sysVars, arcVars, prepVars, schVars>>

exceptRetention == <<ledVars, pkgVars, tripVars, runVars, restVars, sysVars, arcVars, prepVars, schVars>>

exceptTrip == <<ledVars, pkgVars, retVars, runVars, restVars, sysVars, arcVars, prepVars, schVars>>

exceptRun == <<ledVars, pkgVars, retVars, tripVars, restVars, sysVars, arcVars, prepVars, schVars>>

exceptRestore == <<ledVars, pkgVars, retVars, tripVars, runVars, sysVars, arcVars, prepVars, schVars>>

exceptSystem == <<ledVars, pkgVars, retVars, tripVars, runVars, restVars, arcVars, prepVars, schVars>>

exceptArchive == <<ledVars, pkgVars, retVars, tripVars, runVars, restVars, sysVars, prepVars, schVars>>

exceptPrepare == <<ledVars, pkgVars, retVars, tripVars, runVars, restVars, sysVars, arcVars, schVars>>

exceptScheduler == <<ledVars, pkgVars, retVars, tripVars, runVars, restVars, sysVars, arcVars, prepVars>>

(***************************************************************************)
(* Bounds of the model.                                                    *)
(***************************************************************************)
MaxInitLines == 3   \* lines of the two ledger files together in an initial state of SpecMerge
MaxOps == 4         \* ledger operations in one behaviour
MaxMinute == 2      \* minutes the clock can show
MaxMergeOps == 2    \* ledger operations in one behaviour of SpecMerge
NFolders == 2       \* staged subfolders of a snapshot
NFiles == 2         \* files staged in a subfolder
MaxCommits == 3     \* commits of the history retention works on
MaxDay == 2         \* the day cleanup_old_backups runs; commits date from days before
MaxFolders == 2     \* source folders given to one run
MaxRunFolders == 3  \* folders of the run followed step by step
MaxRestoreFiles == 3 \* files of the tree restore walks
NSystemFiles == 3   \* files of the allow-list of system files
MaxArchives == 3    \* folders restored from encrypted archives

\* setup_schedule and remove_schedule calls in one behaviour
MaxCalls == 3

\* well-formed schedule configurations
MaxConfigs == 2

Folders == 1..NFolders

Files == 1..NFiles

(***************************************************************************)
(* The idle values a specification gives the variables of the other parts. *)
(***************************************************************************)
IdlePackage ==
    /\ pkPc = "idle"
    /\ pkCompress = FALSE
    /\ pkEncrypt = FALSE
    /\ pkKeys = 0
    /\ pkTodo = {}
    /\ pkCur = 0
    /\ pkPlain = [f \in Folders |-> {}]
    /\ pkEnc = [f \in Folders |-> {}]
    /\ pkTar = [f \in Folders |-> "none"]
    /\ pkTarGpg = [f \in Folders |-> FALSE]
    /\ pkFileTodo = {}
    /\ pkCurFile = 0
    /\ pkMeta = "absent"
    /\ pkMetaTmp = "absent"
    /\ pkMeta0 = "absent"

IdleRetention ==
    /\ rtnPc = "idle"
    /\ rtnDates = <<>>
    /\ rtnDays = 0
    /\ rtnHead = 0
    /\ rtnRemote = 0
    /\ rtnNext = 0
    /\ rtnRemoved = 0
    /\ rtnPushFailed = FALSE
    /\ rtnAll = FALSE
    /\ rtnLedger = FALSE
    /\ rtnMarker = FALSE
    /\ rtnWiped = FALSE
    /\ rtnCommitted = FALSE
    /\ rtnForced = FALSE

IdleTrip ==
    /\ rtPc = "idle"
    /\ rtFolders = <<>>
    /\ rtOpts = [backup_system |-> FALSE, encrypt |-> FALSE, compress |-> FALSE,
                 incremental |-> FALSE]
    /\ rtStaged = {}
    /\ rtArchives = {}
    /\ rtManifest = {}
    /\ rtRestored = {}

IdleRun ==
    /\ runPc = "idle"
    /\ runFolders = 1
    /\ runOpts = [backup_system |-> FALSE, compress |-> FALSE, encrypt |-> FALSE]
    /\ runInputs = "ok"
    /\ runKeys = 0
    /\ runSameSnapshot = FALSE
    /\ runHasLedger = TRUE
    /\ runClone0 = "none"
    /\ runClone = "none"
    /\ runBound = FALSE
    /\ runStaging = FALSE
    /\ runStaged = {}
    /\ runIdx = 1
    /\ runGit = <<>>
    /\ runCalls = <<>>
    /\ runMarker = FALSE
    /\ runAppended = FALSE
    /\ runAppendedRepo = FALSE
    /\ runError = ""
    /\ runCleanupFailed = FALSE
    /\ runCompleted = 0
    /\ runProgress = <<>>

IdleRestore ==
    /\ rsPc = "idle"
    /\ rsKinds = <<>>
    /\ rsSudo = FALSE
    /\ rsNext = 1
    /\ rsRestored = 0
    /\ rsFailed = 0
    /\ rsBad = {}
    /\ rsWritten = <<>>

IdleSystem ==
    /\ syPc = "idle"
    /\ syKinds = <<>>
    /\ syNext = 1
    /\ syAttempted = {}
    /\ syCopied = {}

IdleArchive ==
    /\ arPc = "idle"
    /\ arFolders = 0
    /\ arNext = 1
    /\ arSudo = FALSE
    /\ arTemp = FALSE
    /\ arRaised = ""
    /\ arDone = {}
    /\ arFailed = {}

IdlePrepare ==
    /\ prPc = "idle"
    /\ prName = "ok"
    /\ prWork0 = [exists |-> FALSE, items |-> {}]
    /\ prWork = [exists |-> FALSE, items |-> {}]
    /\ prRemote0 = {}
    /\ prRemote = {}
    /\ prGit = <<>>

\* self.current_schedule is None
NoSchedule == 0

\* no backup subprocess has been launched
NoLaunch == [thread |-> 0, hour |-> 0, minute |-> 0, script |-> 0, quiet |-> FALSE, last |-> [call |-> 0, kind |-> "none", config |-> 0, script |-> 0], removed |-> 0]

IdleScheduler ==
    /\ running = FALSE
    /\ current_schedule = NoSchedule
    /\ script_path = 0
    /\ schedule_thread = 0
    /\ scPc = "idle"
    /\ scCalls = 0
    /\ scArg = [config |-> 0, script |-> 0]
    /\ scLast = [call |-> 0, kind |-> "none", config |-> 0, script |-> 0]
    /\ scRemoved = 0
    /\ thPc = [t \in 1..MaxCalls |-> "unborn"]
    /\ thRead = [t \in 1..MaxCalls |-> [hour |-> 0, minute |-> 0, frequency |-> 0]]
    /\ scLaunch = NoLaunch

(***************************************************************************)
(* Ledger files.  A file is a sequence of newline-terminated lines; the    *)
(* empty file is <<>> and the file "\n" is <<Blank>>.  A line is known by  *)
(* what json.loads and the field tests of the code make of it:             *)
(*   valid    a JSON object with all of the required fields                *)
(*   partial  a JSON object with a timestamp, missing a required field     *)
(*   nots     a JSON object without a (truthy) timestamp                   *)
(*   garbage  not JSON (json.JSONDecodeError)                              *)
(*   nondict  JSON, but not an object (a number, null, a list)             *)
(*   blank    an empty line                                                *)
(* ts is the timestamp and v tells apart different contents with the same  *)
(* timestamp.                                                              *)
(***************************************************************************)
Line(k, t, v) == [kind |-> k, ts |-> t, v |-> v]

Blank == Line("blank", 0, 0)

Timestamps == {1, 2}

Variants == {1, 2}

EntryLines == {Line("valid", t, v) : t \in Timestamps, v \in Variants}

InitLines ==
    EntryLines \cup {Line("partial", 1, 0), Line("nots", 0, 0),
                     Line("garbage", 0, 0), Line("nondict", 0, 0), Blank}

File(ls) == [exists |-> TRUE, lines |-> ls]

NoFile == [exists |-> FALSE, lines |-> <<>>]

SeqsUpTo(S, n) == UNION {[1..k -> S] : k \in 0..n}

\* [line.strip() for line in f if line.strip()]
NonBlank(ls) == SelectSeq(ls, LAMBDA l : l.kind # "blank")

\* data = json.loads(entry); timestamp = data.get('timestamp'); if timestamp ...
HasTimestamp(l) == l.kind \in {"valid", "partial"}

\* data.get on a value that is not a dict: AttributeError, which the
\* except json.JSONDecodeError clause does not catch
RaisesOnGet(ls) == \E i \in DOMAIN ls : ls[i].kind = "nondict"

SeenTimestamps(merged) == {merged[i].ts : i \in DOMAIN merged}

\* the two loops of sync_backup_history over repo_entries and local_entries
RECURSIVE AddEntries(_, _)
AddEntries(entries, merged) ==
    IF entries = <<>> THEN merged
    ELSE LET e == Head(entries) IN
         IF HasTimestamp(e) /\ e.ts \notin SeenTimestamps(merged)
         THEN AddEntries(Tail(entries), Append(merged, e))
         ELSE AddEntries(Tail(entries), merged)

\* the position list.sort(key=timestamp, reverse=True) gives e among the
\* already sorted s: after every entry whose timestamp is >= e's (stable)
RECURSIVE InsertDesc(_, _)
InsertDesc(e, s) ==
    IF s = <<>> THEN <<e>>
    ELSE IF Head(s).ts >= e.ts THEN <<Head(s)>> \o InsertDesc(e, Tail(s))
    ELSE <<e>> \o s

RECURSIVE SortDescFrom(_, _)
SortDescFrom(todo, done) ==
    IF todo = <<>> THEN done
    ELSE SortDescFrom(Tail(todo), InsertDesc(Head(todo), done))

\* a mutant of SortByTimestampDesc: merged_entries.reverse() in place of the sort
RECURSIVE SortByReversal(_)
SortByReversal(s) ==
    IF s = <<>> THEN <<>> ELSE Append(SortByReversal(Tail(s)), Head(s))

\* merged_entries.sort(key=lambda x: json.loads(x)['timestamp'], reverse=True)
SortByTimestampDesc(s) == SortDescFrom(s, <<>>)

\* a mutant of MergedEntries: the local entries are added before the repository's
MergedLocalFirst(repoLines, localLines) ==
    SortByTimestampDesc(AddEntries(NonBlank(repoLines),
                                   AddEntries(NonBlank(localLines), <<>>)))

\* merged_entries after the two loops and the sort
MergedEntries(repoLines, localLines) ==
    SortByTimestampDesc(AddEntries(NonBlank(localLines),
                                   AddEntries(NonBlank(repoLines), <<>>)))

\* new_content = "\n".join(merged_entries) + "\n"
NewContent(merged) == IF merged = <<>> THEN <<Blank>> ELSE merged


(***************************************************************************)
(* The ledger's git operations.                                            *)
(***************************************************************************)
\* self.repo.git.add(path); self.repo.git.commit(m=...); self.repo.git.push()
\* on the working-copy ledger wc.  With self.repo None the first call raises
\* AttributeError; git commit fails when nothing changed against HEAD; a
\* failed push leaves the commit in the local branch only.
LedgerCommitPush(wc, handle, head, remote, pushOk) ==
    IF handle # "clone" \/ wc = head
    THEN [raised |-> TRUE, head |-> head, remote |-> remote,
          committed |-> FALSE, pushed |-> FALSE]
    ELSE IF pushOk
    THEN [raised |-> FALSE, head |-> wc, remote |-> wc,
          committed |-> TRUE, pushed |-> TRUE]
    ELSE [raised |-> TRUE, head |-> wc, remote |-> remote,
          committed |-> TRUE, pushed |-> FALSE]

OpRecord(op, result, wrote, committed, pushed, collided) ==
    [op |-> op, result |-> result, wrote |-> wrote, committed |-> committed,
     pushed |-> pushed, collided |-> collided]

NoOp == OpRecord("none", "ok", FALSE, FALSE, FALSE, FALSE)

\* the repository ledger and the local ledger each hold an entry with the
\* same timestamp and different content
Collide(repoLines, localLines) ==
    \E i \in DOMAIN repoLines, j \in DOMAIN localLines :
        /\ HasTimestamp(repoLines[i]) /\ HasTimestamp(localLines[j])
        /\ repoLines[i].ts = localLines[j].ts
        /\ repoLines[i] # localLines[j]

(***************************************************************************)
(* sync_backup_history as a function of the files and the git state: the   *)
(* files and git state it leaves, whether it raised, and what it did.      *)
(***************************************************************************)
SyncOutcome(local, repo, head, remote, handle, pushOk) ==
    LET same == [local |-> local, repo |-> repo, head |-> head,
                 remote |-> remote, raised |-> FALSE, wrote |-> FALSE,
                 committed |-> FALSE, pushed |-> FALSE]
    IN
    IF ~repo.exists THEN same
    ELSE IF RaisesOnGet(NonBlank(repo.lines)) \/ RaisesOnGet(NonBlank(local.lines))
    THEN [same EXCEPT !.raised = TRUE]
    ELSE LET new == NewContent(MergedEntries(repo.lines, local.lines)) IN
         IF repo.lines = new THEN same
         ELSE LET g == LedgerCommitPush(File(new), handle, head, remote, pushOk) IN
              [local |-> File(new), repo |-> File(new), head |-> g.head,
               remote |-> g.remote, raised |-> g.raised, wrote |-> TRUE,
               committed |-> g.committed, pushed |-> g.pushed]

sync_backup_history(pushOk) ==
    /\ opCount < MaxOps
    /\ LET r == SyncOutcome(localLedger, repoLedger, headLedger, remoteLedger,
                            repoHandle, pushOk)
       IN
       /\ localLedger' = r.local
       /\ repoLedger' = r.repo
       /\ headLedger' = r.head
       /\ remoteLedger' = r.remote
       /\ lastOp' = OpRecord("sync", IF r.raised THEN "raised" ELSE "ok",
                             r.wrote, r.committed, r.pushed,
                             Collide(repoLedger.lines, localLedger.lines))
    /\ prevOp' = lastOp
    /\ opCount' = opCount + 1
    /\ UNCHANGED <<repoHandle, lastBackup, nowMin>>
    /\ UNCHANGED exceptLedger

(***************************************************************************)
(* verify_and_repair_history: merge first, then drop the lines of the      *)
(* local ledger that are not valid and, if any line was dropped, rewrite   *)
(* both ledgers from the valid lines of the local one.                     *)
(***************************************************************************)
\* all(field in entry for field in required_fields)
IsValidEntry(l) == l.kind = "valid"

ValidEntries(ls) == SelectSeq(NonBlank(ls), IsValidEntry)

RepairOutcome(local, repo, head, remote, handle, pushOk1, pushOk2) ==
    LET s == SyncOutcome(local, repo, head, remote, handle, pushOk1) IN
    IF s.raised \/ ~s.local.exists THEN s
    ELSE LET valid == ValidEntries(s.local.lines) IN
         \* len(valid_entries) < len(open(history_path).readlines())
         IF Len(valid) < Len(s.local.lines)
         THEN LET g == LedgerCommitPush(File(valid), handle, s.head, s.remote, pushOk2) IN
              [local |-> File(valid), repo |-> File(valid), head |-> g.head,
               remote |-> g.remote, raised |-> g.raised, wrote |-> TRUE,
               committed |-> s.committed \/ g.committed,
               pushed |-> s.pushed \/ g.pushed]
         ELSE s

verify_and_repair_history(pushOk1, pushOk2) ==
    /\ opCount < MaxOps
    /\ LET r == RepairOutcome(localLedger, repoLedger, headLedger, remoteLedger,
                              repoHandle, pushOk1, pushOk2)
       IN
       /\ localLedger' = r.local
       /\ repoLedger' = r.repo
       /\ headLedger' = r.head
       /\ remoteLedger' = r.remote
       /\ lastOp' = OpRecord("repair", IF r.raised THEN "raised" ELSE "ok",
                             r.wrote, r.committed, r.pushed,
                             Collide(repoLedger.lines, localLedger.lines))
    /\ prevOp' = lastOp
    /\ opCount' = opCount + 1
    /\ UNCHANGED <<repoHandle, lastBackup, nowMin>>
    /\ UNCHANGED exceptLedger

(***************************************************************************)
(* A backup run, as far as the ledgers see it: _prepare_repo replaces the  *)
(* clone by a fresh one (bootstrapping the ledger), the snapshot is        *)
(* committed and pushed, and then _record_backup_time and                  *)
(* _append_backup_history run inside a try whose failure run swallows.     *)
(***************************************************************************)
\* timestamp = datetime.datetime.now().strftime("%Y%m%d_%H%M")
RunTimestamp(minute) == minute

\* with open(path, "a") as f: f.write(json.dumps(backup_entry) + "\n")
AppendLine(file, e) == File(Append(file.lines, e))

RunOutcome(local, remote, handle, head, repo, marker, minute, v, cloneOk, bootOk, snapOk, recordOk, pushOk) ==
    LET e == Line("valid", RunTimestamp(minute), v)
        failed(r, h, rem, hd) ==
            [local |-> local, repo |-> r, head |-> h, remote |-> rem,
             handle |-> hd, marker |-> marker, raised |-> TRUE,
             wrote |-> FALSE, committed |-> FALSE, pushed |-> FALSE]
        \* the clone after _prepare_repo
        wc == IF remote.exists THEN remote ELSE File(<<>>)
    IN
    IF ~cloneOk THEN failed(NoFile, NoFile, remote, handle)
    ELSE IF ~remote.exists /\ ~bootOk THEN failed(wc, wc, remote, "clone")
    ELSE IF ~snapOk THEN failed(wc, wc, wc, "clone")
    ELSE IF ~recordOk
    THEN [local |-> local, repo |-> wc, head |-> wc, remote |-> wc,
          handle |-> "clone", marker |-> marker, raised |-> FALSE,
          wrote |-> FALSE, committed |-> FALSE, pushed |-> FALSE]
    ELSE LET g == LedgerCommitPush(AppendLine(wc, e), "clone", wc, wc, pushOk) IN
         [local |-> AppendLine(local, e), repo |-> AppendLine(wc, e),
          head |-> g.head, remote |-> g.remote, handle |-> "clone",
          marker |-> minute, raised |-> FALSE, wrote |-> TRUE,
          committed |-> g.committed, pushed |-> g.pushed]

RunBackup(v, cloneOk, bootOk, snapOk, recordOk, pushOk) ==
    /\ opCount < MaxOps
    /\ LET r == RunOutcome(localLedger, remoteLedger, repoHandle, headLedger,
                           repoLedger, lastBackup, nowMin, v,
                           cloneOk, bootOk, snapOk, recordOk, pushOk)
       IN
       /\ localLedger' = r.local
       /\ repoLedger' = r.repo
       /\ headLedger' = r.head
       /\ remoteLedger' = r.remote
       /\ repoHandle' = r.handle
       /\ lastBackup' = r.marker
       /\ lastOp' = OpRecord("run", IF r.raised THEN "raised" ELSE "ok",
                             r.wrote, r.committed, r.pushed, FALSE)
    /\ prevOp' = lastOp
    /\ opCount' = opCount + 1
    /\ UNCHANGED nowMin
    /\ UNCHANGED exceptLedger

\* __init__, lines 14-20: the host starts anew with a new BackupManager,
\* whose self.repo is None, over the files the last one left
Restart ==
    /\ opCount < MaxOps
    /\ repoHandle' = "none"
    /\ lastOp' = OpRecord("init", "ok", FALSE, FALSE, FALSE, FALSE)
    /\ prevOp' = lastOp
    /\ opCount' = opCount + 1
    /\ UNCHANGED <<localLedger, repoLedger, headLedger, remoteLedger, lastBackup, nowMin>>
    /\ UNCHANGED exceptLedger

\* restore, lines 855-873: self.repo is bound to a clone at
\* repo_path/<repo name>, by Repo.clone_from when it returns, by
\* Repo(repo_path) whatever the pull does after it; the rest of restore
\* touches neither ledger
RestoreBinds(bound) ==
    /\ opCount < MaxOps
    /\ repoHandle' = IF bound THEN "restore" ELSE repoHandle
    /\ lastOp' = OpRecord("restore", "ok", FALSE, FALSE, FALSE, FALSE)
    /\ prevOp' = lastOp
    /\ opCount' = opCount + 1
    /\ UNCHANGED <<localLedger, repoLedger, headLedger, remoteLedger, lastBackup, nowMin>>
    /\ UNCHANGED exceptLedger

\* a minute passes
Tick ==
    /\ nowMin < MaxMinute
    /\ nowMin' = nowMin + 1
    /\ UNCHANGED <<localLedger, repoLedger, headLedger, remoteLedger,
                   repoHandle, lastBackup, lastOp, prevOp, opCount>>
    /\ UNCHANGED exceptLedger

(***************************************************************************)
(* SpecHistory: a fresh installation (no clone, no ledger, an empty        *)
(* remote), then runs, merges and repairs as the host calls them, one at   *)
(* a time.                                                                 *)
(***************************************************************************)
FreshLedger ==
    /\ localLedger = NoFile
    /\ repoLedger = NoFile
    /\ headLedger = NoFile
    /\ remoteLedger = NoFile
    /\ repoHandle = "none"
    /\ lastBackup = 0
    /\ nowMin = 1
    /\ lastOp = NoOp
    /\ prevOp = NoOp
    /\ opCount = 0

NextHistory ==
    \/ \E v \in Variants, cloneOk, bootOk, snapOk, recordOk, pushOk \in BOOLEAN :
           RunBackup(v, cloneOk, bootOk, snapOk, recordOk, pushOk)
    \/ \E pushOk \in BOOLEAN : sync_backup_history(pushOk)
    \/ \E pushOk1, pushOk2 \in BOOLEAN : verify_and_repair_history(pushOk1, pushOk2)
    \/ Restart
    \/ \E bound \in BOOLEAN : RestoreBinds(bound)
    \/ Tick

InitHistory == FreshLedger /\ IdlePackage /\ IdleRetention /\ IdleTrip /\ IdleRun /\ IdleRestore /\ IdleSystem /\ IdleArchive /\ IdlePrepare /\ IdleScheduler

SpecHistory == InitHistory /\ [][NextHistory]_vars

(***************************************************************************)
(* SpecMerge: merges and repairs from any contents of the two ledgers.     *)
(***************************************************************************)
\* the two files hold at most MaxInitLines lines together; either may be absent
AnyLedgers ==
    /\ \E ls \in SeqsUpTo(InitLines, MaxInitLines), k \in 0..MaxInitLines,
          le, re \in BOOLEAN :
          /\ k <= Len(ls)
          /\ le \/ k = 0
          /\ re \/ k = Len(ls)
          /\ localLedger = [exists |-> le, lines |-> SubSeq(ls, 1, k)]
          /\ repoLedger = [exists |-> re, lines |-> SubSeq(ls, k + 1, Len(ls))]
    /\ headLedger = repoLedger
    /\ remoteLedger = repoLedger
    /\ repoHandle = "clone"
    /\ lastBackup = 0
    /\ nowMin = 1
    /\ lastOp = NoOp
    /\ prevOp = NoOp
    /\ opCount = 0

MergeOnce(pushOk) == opCount < MaxMergeOps /\ sync_backup_history(pushOk)

RepairOnce(pushOk1, pushOk2) ==
    opCount < MaxMergeOps /\ verify_and_repair_history(pushOk1, pushOk2)

NextMerge ==
    \/ \E pushOk \in BOOLEAN : MergeOnce(pushOk)
    \/ \E pushOk1, pushOk2 \in BOOLEAN : RepairOnce(pushOk1, pushOk2)

InitMerge == AnyLedgers /\ IdlePackage /\ IdleRetention /\ IdleTrip /\ IdleRun /\ IdleRestore /\ IdleSystem /\ IdleArchive /\ IdlePrepare /\ IdleScheduler

SpecMerge == InitMerge /\ [][NextMerge]_vars

(***************************************************************************)
(* Claims about the History Ledger.                                        *)
(***************************************************************************)
\* C5: merge is idempotent: when sync_backup_history runs twice in
\* succession, with no entry added in between, the second call writes
\* neither ledger file and makes no commit and no push.
MergeIdempotent ==
    (lastOp.op = "sync" /\ prevOp.op = "sync")
        => (~lastOp.wrote /\ ~lastOp.committed /\ ~lastOp.pushed)

\* the second of two merges in a row, the first of which wrote, committed and pushed
MergeIdempotentWitness ==
    /\ lastOp.op = "sync" /\ prevOp.op = "sync"
    /\ prevOp.result = "ok" /\ prevOp.wrote /\ prevOp.pushed
    /\ Len(repoLedger.lines) >= 2

\* the first line of ls that carries timestamp t
FirstWithTimestamp(ls, t) ==
    ls[CHOOSE i \in DOMAIN ls :
          /\ HasTimestamp(ls[i]) /\ ls[i].ts = t
          /\ \A j \in 1..(i - 1) : ~(HasTimestamp(ls[j]) /\ ls[j].ts = t)]

\* C6: a merge that returns leaves in the repository ledger exactly one
\* entry per timestamp, the repository's own entry where the repository had
\* one for that timestamp, every timestamp of either ledger, and the
\* entries in descending order of timestamp.
MergePrefersRepository ==
    [][(/\ opCount' = opCount + 1
        /\ lastOp'.op = "sync" /\ lastOp'.result = "ok"
        /\ repoLedger.exists)
       => LET out == NonBlank(repoLedger'.lines)
              rl == repoLedger.lines
              ll == localLedger.lines
          IN
          /\ \A i \in DOMAIN out : HasTimestamp(out[i])
          /\ \A i, j \in DOMAIN out : i < j => out[i].ts > out[j].ts
          /\ \A i \in DOMAIN rl :
                HasTimestamp(rl[i]) =>
                    \E k \in DOMAIN out : out[k] = FirstWithTimestamp(rl, rl[i].ts)
          /\ \A j \in DOMAIN ll :
                HasTimestamp(ll[j]) => \E k \in DOMAIN out : out[k].ts = ll[j].ts
      ]_vars

\* a merge returned after the two ledgers held different entries for one
\* timestamp, and it wrote a merged ledger of two entries or more
MergePrefersRepositoryWitness ==
    /\ lastOp.op = "sync" /\ lastOp.result = "ok"
    /\ lastOp.collided /\ lastOp.wrote
    /\ Len(repoLedger.lines) >= 2

\* C7 (as claimed): whenever sync_backup_history returns without error and
\* the repository ledger exists, the local ledger and the repository ledger
\* have identical content.
MergeConverges ==
    (lastOp.op = "sync" /\ lastOp.result = "ok" /\ repoLedger.exists)
        => localLedger = repoLedger

NoDuplicateTimestamp(ls) ==
    \A i, j \in DOMAIN ls :
        (i < j /\ HasTimestamp(ls[i]) /\ HasTimestamp(ls[j])) => ls[i].ts # ls[j].ts

\* C8 (as claimed): in every state reachable by backup runs, merges and
\* repairs, neither the local ledger nor the repository ledger holds two
\* entries with the same timestamp.
LedgerUniqueByTimestamp ==
    NoDuplicateTimestamp(localLedger.lines) /\ NoDuplicateTimestamp(repoLedger.lines)

AllValid(ls) == \A i \in DOMAIN ls : ls[i].kind \in {"valid", "blank"}

\* C17 (as claimed): after verify_and_repair_history has returned without
\* error, every entry line of the local ledger and of the repository ledger
\* is a valid entry, whatever the two ledgers held before.
RepairLeavesValid ==
    (lastOp.op = "repair" /\ lastOp.result = "ok") =>
        (AllValid(localLedger.lines) /\ AllValid(repoLedger.lines))

\* C28 (as claimed): every ledger operation that has written the ledger
\* and so goes on to commit it does so through a repository handle that is
\* initialised and is the clone at repo_path, the one holding the ledger.
LedgerCommitsThroughClone ==
    (lastOp.op \in {"sync", "repair", "run"} /\ lastOp.wrote) => repoHandle = "clone"

\* C29 (as claimed): when a merge has written the merged ledger and then
\* raised at its commit or push, the next merge, successful and with no new
\* entry, leaves the merged content committed and pushed.
FailedMergeIsRetried ==
    (/\ lastOp.op = "sync" /\ lastOp.result = "ok"
     /\ prevOp.op = "sync" /\ prevOp.result = "raised" /\ prevOp.wrote)
        => (repoLedger = headLedger /\ headLedger = remoteLedger)

\* C25 (as claimed): verify_and_repair_history never removes a valid entry
\* from the repository ledger: every line that is valid in it before the
\* call is still in it after the call.
RepairKeepsValidEntries ==
    [][(opCount' = opCount + 1 /\ lastOp'.op = "repair")
       => \A i \in DOMAIN repoLedger.lines :
             IsValidEntry(repoLedger.lines[i]) =>
                 \E j \in DOMAIN repoLedger'.lines :
                     repoLedger'.lines[j] = repoLedger.lines[i]
      ]_vars

\* the same for a repository ledger that holds no timestamp twice, where
\* the merge has no duplicate to drop
RepairKeepsUniqueEntries ==
    [][(/\ opCount' = opCount + 1 /\ lastOp'.op = "repair"
        /\ NoDuplicateTimestamp(repoLedger.lines))
       => \A i \in DOMAIN repoLedger.lines :
             IsValidEntry(repoLedger.lines[i]) =>
                 \E j \in DOMAIN repoLedger'.lines :
                     repoLedger'.lines[j] = repoLedger.lines[i]
      ]_vars

(***************************************************************************)
(* _process_backup_files(temp_dir, compress, encrypt), step by step.       *)
(* A staged subfolder holds the files 1..NFiles.  The archiver and gpg are *)
(* outside the repository: tarfile may raise, leaving a partial archive;   *)
(* gpg.encrypt_file may write the .gpg sibling, may raise, or may return a *)
(* result whose ok is False without writing anything (the code never reads *)
(* the result).                                                            *)
(***************************************************************************)
EncryptOutcomes == {"written", "notwritten", "raises"}

\* shutil.copy2(metadata_path, temp_metadata), when metadata.json exists
PreserveMetadata(meta, tmp) == IF meta # "absent" THEN meta ELSE tmp

\* a mutant of RestoreMetadata: the arguments of shutil.move swapped
RestoreMetadataSwapped(meta, tmp) ==
    IF tmp # "absent" THEN [meta |-> "absent", tmp |-> meta]
    ELSE [meta |-> meta, tmp |-> tmp]

\* if os.path.exists(temp_metadata): shutil.move(temp_metadata, metadata_path)
RestoreMetadata(meta, tmp) ==
    IF tmp # "absent" THEN [meta |-> tmp, tmp |-> "absent"]
    ELSE [meta |-> meta, tmp |-> tmp]

InitPackage ==
    /\ pkPc = "start"
    /\ pkCompress \in BOOLEAN
    /\ pkEncrypt \in BOOLEAN
    /\ pkCompress \/ pkEncrypt          \* run calls it only then
    /\ pkKeys \in {0, 1}
    /\ pkTodo = Folders
    /\ pkCur = 0
    /\ pkPlain = [f \in Folders |-> Files]
    /\ pkEnc = [f \in Folders |-> {}]
    /\ pkTar = [f \in Folders |-> "none"]
    /\ pkTarGpg = [f \in Folders |-> FALSE]
    /\ pkFileTodo = {}
    /\ pkCurFile = 0
    /\ pkMeta = "manifest"
    /\ pkMetaTmp = "absent"
    /\ pkMeta0 = "manifest"

\* lines 427-431
PkPreserve ==
    /\ pkPc = "start"
    /\ pkMetaTmp' = PreserveMetadata(pkMeta, pkMetaTmp)
    /\ pkPc' = "loop"
    /\ UNCHANGED <<pkCompress, pkEncrypt, pkKeys, pkTodo, pkCur, pkPlain, pkEnc,
                   pkTar, pkTarGpg, pkFileTodo, pkCurFile, pkMeta, pkMeta0>>
    /\ UNCHANGED exceptPackage

\* lines 434-440, 462: the next subfolder os.listdir yields
PkNextFolder(f) ==
    /\ pkPc = "loop"
    /\ f \in pkTodo
    /\ pkTodo' = pkTodo \ {f}
    /\ pkCur' = f
    /\ pkPc' = IF pkCompress THEN "compress" ELSE IF pkEncrypt THEN "keys" ELSE "loop"
    /\ UNCHANGED <<pkCompress, pkEncrypt, pkKeys, pkPlain, pkEnc, pkTar, pkTarGpg,
                   pkFileTodo, pkCurFile, pkMeta, pkMetaTmp, pkMeta0>>
    /\ UNCHANGED exceptPackage

\* lines 441-450: the archive is built, or tarfile raises part-way
PkCompress(ok) ==
    /\ pkPc = "compress"
    /\ pkTar' = [pkTar EXCEPT ![pkCur] = IF ok THEN "whole" ELSE "partial"]
    /\ pkPc' = IF ok THEN "remove" ELSE "handler"
    /\ UNCHANGED <<pkCompress, pkEncrypt, pkKeys, pkTodo, pkCur, pkPlain, pkEnc,
                   pkTarGpg, pkFileTodo, pkCurFile, pkMeta, pkMetaTmp, pkMeta0>>
    /\ UNCHANGED exceptPackage

\* lines 453-459: the archived originals are removed
PkRemoveOriginals ==
    /\ pkPc = "remove"
    /\ pkPlain' = [pkPlain EXCEPT ![pkCur] = {}]
    /\ pkPc' = IF pkEncrypt THEN "keys" ELSE "loop"
    /\ UNCHANGED <<pkCompress, pkEncrypt, pkKeys, pkTodo, pkCur, pkEnc, pkTar,
                   pkTarGpg, pkFileTodo, pkCurFile, pkMeta, pkMetaTmp, pkMeta0>>
    /\ UNCHANGED exceptPackage

\* lines 462-469, 482-483: keys = self.gpg.list_keys(); if not keys: raise
PkListKeys ==
    /\ pkPc = "keys"
    /\ IF pkKeys = 0 THEN pkPc' = "handler" /\ UNCHANGED pkFileTodo
       ELSE IF pkCompress THEN pkPc' = "encrypt" /\ UNCHANGED pkFileTodo
       ELSE /\ pkFileTodo' = pkPlain[pkCur]
            /\ pkPc' = IF pkPlain[pkCur] = {} THEN "loop" ELSE "encrypt"
    /\ UNCHANGED <<pkCompress, pkEncrypt, pkKeys, pkTodo, pkCur, pkPlain, pkEnc,
                   pkTar, pkTarGpg, pkCurFile, pkMeta, pkMetaTmp, pkMeta0>>
    /\ UNCHANGED exceptPackage

\* lines 473-478: gpg.encrypt_file(f, recipients=[key], output=tar_path + ".gpg")
PkEncryptTar(outcome) ==
    /\ pkPc = "encrypt" /\ pkCompress
    /\ pkTarGpg' = [pkTarGpg EXCEPT ![pkCur] = @ \/ outcome = "written"]
    /\ pkPc' = IF outcome = "raises" THEN "handler" ELSE "rmtar"
    /\ UNCHANGED <<pkCompress, pkEncrypt, pkKeys, pkTodo, pkCur, pkPlain, pkEnc,
                   pkTar, pkFileTodo, pkCurFile, pkMeta, pkMetaTmp, pkMeta0>>
    /\ UNCHANGED exceptPackage

\* line 479: os.remove(tar_path)
PkRemoveTar ==
    /\ pkPc = "rmtar"
    /\ pkTar' = [pkTar EXCEPT ![pkCur] = "removed"]
    /\ pkPc' = "loop"
    /\ UNCHANGED <<pkCompress, pkEncrypt, pkKeys, pkTodo, pkCur, pkPlain, pkEnc,
                   pkTarGpg, pkFileTodo, pkCurFile, pkMeta, pkMetaTmp, pkMeta0>>
    /\ UNCHANGED exceptPackage

\* lines 484-491: gpg.encrypt_file(f, recipients=[key], output=file_path + ".gpg")
PkEncryptFile(x, outcome) ==
    /\ pkPc = "encrypt" /\ ~pkCompress
    /\ x \in pkFileTodo
    /\ pkCurFile' = x
    /\ pkEnc' = [pkEnc EXCEPT ![pkCur] = IF outcome = "written" THEN @ \cup {x} ELSE @]
    /\ pkPc' = IF outcome = "raises" THEN "handler" ELSE "rmfile"
    /\ UNCHANGED <<pkCompress, pkEncrypt, pkKeys, pkTodo, pkCur, pkPlain, pkTar,
                   pkTarGpg, pkFileTodo, pkMeta, pkMetaTmp, pkMeta0>>
    /\ UNCHANGED exceptPackage

\* line 492: os.remove(file_path)
PkRemoveFile ==
    /\ pkPc = "rmfile"
    /\ pkPlain' = [pkPlain EXCEPT ![pkCur] = @ \ {pkCurFile}]
    /\ pkFileTodo' = pkFileTodo \ {pkCurFile}
    /\ pkCurFile' = 0
    /\ pkPc' = IF pkFileTodo \ {pkCurFile} = {} THEN "loop" ELSE "encrypt"
    /\ UNCHANGED <<pkCompress, pkEncrypt, pkKeys, pkTodo, pkCur, pkEnc, pkTar,
                   pkTarGpg, pkMeta, pkMetaTmp, pkMeta0>>
    /\ UNCHANGED exceptPackage

\* lines 494-498: the loop is over
PkFinish ==
    /\ pkPc = "loop" /\ pkTodo = {}
    /\ LET r == RestoreMetadata(pkMeta, pkMetaTmp) IN
       pkMeta' = r.meta /\ pkMetaTmp' = r.tmp
    /\ pkPc' = "returned"
    /\ UNCHANGED <<pkCompress, pkEncrypt, pkKeys, pkTodo, pkCur, pkPlain, pkEnc,
                   pkTar, pkTarGpg, pkFileTodo, pkCurFile, pkMeta0>>
    /\ UNCHANGED exceptPackage

\* lines 500-504: except Exception
PkHandler ==
    /\ pkPc = "handler"
    /\ LET r == RestoreMetadata(pkMeta, pkMetaTmp) IN
       pkMeta' = r.meta /\ pkMetaTmp' = r.tmp
    /\ pkPc' = "raised"
    /\ UNCHANGED <<pkCompress, pkEncrypt, pkKeys, pkTodo, pkCur, pkPlain, pkEnc,
                   pkTar, pkTarGpg, pkFileTodo, pkCurFile, pkMeta0>>
    /\ UNCHANGED exceptPackage

NextPackage ==
    \/ PkPreserve
    \/ \E f \in Folders : PkNextFolder(f)
    \/ \E ok \in BOOLEAN : PkCompress(ok)
    \/ PkRemoveOriginals
    \/ PkListKeys
    \/ \E outcome \in EncryptOutcomes : PkEncryptTar(outcome)
    \/ PkRemoveTar
    \/ \E x \in Files, outcome \in EncryptOutcomes : PkEncryptFile(x, outcome)
    \/ PkRemoveFile
    \/ PkFinish
    \/ PkHandler

InitPackageSpec == InitPackage /\ FreshLedger /\ IdleRetention /\ IdleTrip /\ IdleRun /\ IdleRestore /\ IdleSystem /\ IdleArchive /\ IdlePrepare /\ IdleScheduler

SpecPackage == InitPackageSpec /\ [][NextPackage]_vars

(***************************************************************************)
(* Claims about the packager.                                              *)
(***************************************************************************)
\* C9: packaging never destroys the manifest: when _process_backup_files
\* has returned or raised, metadata.json exists at the staging root with
\* the content it had before packaging started.
PackagingKeepsManifest ==
    pkPc \in {"returned", "raised"} => (pkMeta # "absent" /\ pkMeta = pkMeta0)

\* compression or encryption failed after a whole subfolder had been packaged
PackagingKeepsManifestWitness ==
    /\ pkPc = "raised"
    /\ pkKeys > 0
    /\ \E f \in Folders : f \notin pkTodo /\ f # pkCur
    /\ pkMeta = "manifest"

\* C10 (as claimed): with encrypt enabled, in every state during and after
\* packaging each payload item (the archive when compress is on, otherwise
\* each staged file) is present as plaintext or as its encrypted sibling.
PlaintextKeptUntilEncrypted ==
    (pkPc # "idle" /\ pkEncrypt) =>
        \A f \in Folders :
            IF pkCompress
            THEN pkTar[f] = "removed" => pkTarGpg[f]
            ELSE \A x \in Files : x \in pkPlain[f] \/ x \in pkEnc[f]

\* run, lines 237-268: what the recount after packaging adds for one staged
\* subfolder: 1 for backup.tar.gz, else 1 for backup.tar.gz.gpg, else one per
\* file found by os.walk
FolderCount(tar, tarGpg, plain, enc) ==
    IF tar \in {"whole", "partial"} THEN 1
    ELSE IF tarGpg THEN 1
    ELSE Cardinality(plain) + Cardinality(enc)

RECURSIVE CountOver(_)
\* file_count after the loop over backup_metadata['folders']
CountOver(fs) ==
    IF fs = {} THEN 0
    ELSE LET f == CHOOSE g \in fs : TRUE IN
         FolderCount(pkTar[f], pkTarGpg[f], pkPlain[f], pkEnc[f]) + CountOver(fs \ {f})

\* the archive files a staged subfolder holds
ArchivesIn(f) ==
    (IF pkTar[f] \in {"whole", "partial"} THEN 1 ELSE 0) + (IF pkTarGpg[f] THEN 1 ELSE 0)

\* C18 (as claimed): with compress enabled, once packaging has returned every
\* staged subfolder holds exactly one archive file and none of the originals,
\* and the recounted total_files equals the number of staged subfolders.
OneArchivePerFolder ==
    (pkPc = "returned" /\ pkCompress) =>
        /\ \A f \in Folders : ArchivesIn(f) = 1 /\ pkPlain[f] = {}
        /\ CountOver(Folders) = NFolders

\* the same statement restricted to compression without encryption
OneArchivePerFolderPlain ==
    (pkPc = "returned" /\ pkCompress /\ ~pkEncrypt) =>
        /\ \A f \in Folders : ArchivesIn(f) = 1 /\ pkPlain[f] = {}
        /\ CountOver(Folders) = NFolders

(***************************************************************************)
(* cleanup_old_backups(retention_days) with a number, on a linear history  *)
(* of commits 1 (the root) .. n (the newest, where the branch points).     *)
(* Dates are whole days; the call runs on day MaxDay.                      *)
(***************************************************************************)
\* cutoff_date = datetime.datetime.now() - datetime.timedelta(days=retention_days)
CutoffDate(now, days) == now - days

\* if commit_date < cutoff_date
OlderThanCutoff(c) == rtnDates[c] < CutoffDate(MaxDay, rtnDays)

\* self.repo.git.reset('--hard', commit.hexsha + '^'): the parent of c, which
\* the root commit does not have (git fails: unknown revision)
HasParent(c) == c > 1

ParentOf(c) == c - 1

InitRetention ==
    /\ rtnPc = "start"
    /\ \E n \in 1..MaxCommits :
          /\ rtnDates \in [1..n -> 0..(MaxDay - 1)]
          /\ rtnHead = n
          /\ rtnRemote = n
    /\ rtnDays \in 0..MaxDay
    /\ rtnNext = 0
    /\ rtnRemoved = 0
    /\ rtnPushFailed = FALSE
    /\ rtnAll \in BOOLEAN
    /\ rtnLedger \in BOOLEAN
    /\ rtnMarker \in BOOLEAN
    /\ rtnWiped = FALSE
    /\ rtnCommitted = FALSE
    /\ rtnForced = FALSE

\* every call goes to cleanup_all_backups
DeleteAllAlways(none) == TRUE

\* lines 1220-1221: if retention_days is None: return self.cleanup_all_backups()
DeleteAll(none) == none

\* what cleanup_all_backups works on; cleanup_old_backups with a number
\* does not touch any of it
allVars == <<rtnLedger, rtnMarker, rtnWiped, rtnCommitted, rtnForced>>

\* lines 1223-1232: commits = list(self.repo.iter_commits()), newest first
RetStart ==
    /\ rtnPc = "start"
    /\ ~DeleteAll(rtnAll)
    /\ rtnNext' = rtnHead
    /\ rtnRemoved' = 0
    /\ rtnPc' = "loop"
    /\ UNCHANGED <<rtnDates, rtnDays, rtnHead, rtnRemote, rtnPushFailed, rtnAll, allVars>>
    /\ UNCHANGED exceptRetention

\* lines 1234-1236: a commit that is not older than the cutoff is passed over
RetSkip ==
    /\ rtnPc = "loop" /\ rtnNext >= 1
    /\ ~OlderThanCutoff(rtnNext)
    /\ rtnNext' = rtnNext - 1
    /\ UNCHANGED <<rtnPc, rtnDates, rtnDays, rtnHead, rtnRemote, rtnRemoved,
                   rtnPushFailed, rtnAll, allVars>>
    /\ UNCHANGED exceptRetention

\* lines 1237-1252: reset --hard to the parent and push --force, inside a try
\* whose except logs and goes on
RetRemove(pushOk) ==
    /\ rtnPc = "loop" /\ rtnNext >= 1
    /\ OlderThanCutoff(rtnNext)
    /\ IF ~HasParent(rtnNext)
       THEN UNCHANGED <<rtnHead, rtnRemote, rtnRemoved, rtnPushFailed>>
       ELSE /\ rtnHead' = ParentOf(rtnNext)
            /\ IF pushOk
               THEN /\ rtnRemote' = ParentOf(rtnNext)
                    /\ rtnRemoved' = rtnRemoved + 1
                    /\ UNCHANGED rtnPushFailed
               ELSE /\ rtnPushFailed' = TRUE
                    /\ UNCHANGED <<rtnRemote, rtnRemoved>>
    /\ rtnNext' = rtnNext - 1
    /\ UNCHANGED <<rtnPc, rtnDates, rtnDays, rtnAll, allVars>>
    /\ UNCHANGED exceptRetention

\* lines 1254-1255
RetReturn ==
    /\ rtnPc = "loop" /\ rtnNext = 0
    /\ rtnPc' = "returned"
    /\ UNCHANGED <<rtnDates, rtnDays, rtnHead, rtnRemote, rtnNext, rtnRemoved,
                   rtnPushFailed, rtnAll, allVars>>
    /\ UNCHANGED exceptRetention

(***************************************************************************)
(* cleanup_all_backups.                                                    *)
(***************************************************************************)
\* the history and the loop state of cleanup_old_backups
ageVars == <<rtnDates, rtnDays, rtnHead, rtnRemote, rtnNext, rtnRemoved, rtnPushFailed>>

\* lines 1163-1183: every file and directory outside .git is removed; a
\* failure to remove one is logged and passed over
AllWipe(ok) ==
    /\ rtnPc = "start"
    /\ DeleteAll(rtnAll)
    /\ rtnWiped' = ok
    /\ rtnPc' = "commit"
    /\ UNCHANGED <<rtnAll, rtnLedger, rtnMarker, rtnCommitted, rtnForced, ageVars>>
    /\ UNCHANGED exceptRetention

CleanupOutcomes == {"ok", "commit_fails", "push_fails"}

\* lines 1186-1191: add, commit and push --force inside a try whose except
\* logs the failure and goes on
AllCommit(outcome) ==
    /\ rtnPc = "commit"
    /\ rtnCommitted' = (outcome # "commit_fails")
    /\ rtnForced' = (outcome = "ok")
    /\ rtnPc' = "clear"
    /\ UNCHANGED <<rtnAll, rtnLedger, rtnMarker, rtnWiped, ageVars>>
    /\ UNCHANGED exceptRetention

\* lines 1197-1211: the local ledger and the marker are removed if they exist
AllClear ==
    /\ rtnPc = "clear"
    /\ rtnLedger' = FALSE
    /\ rtnMarker' = FALSE
    /\ rtnPc' = "cleared"
    /\ UNCHANGED <<rtnAll, rtnWiped, rtnCommitted, rtnForced, ageVars>>
    /\ UNCHANGED exceptRetention

NextRetention ==
    \/ RetStart
    \/ RetSkip
    \/ \E pushOk \in BOOLEAN : RetRemove(pushOk)
    \/ RetReturn
    \/ \E ok \in BOOLEAN : AllWipe(ok)
    \/ \E outcome \in CleanupOutcomes : AllCommit(outcome)
    \/ AllClear

InitRetentionSpec == InitRetention /\ FreshLedger /\ IdlePackage /\ IdleTrip /\ IdleRun /\ IdleRestore /\ IdleSystem /\ IdleArchive /\ IdlePrepare /\ IdleScheduler

SpecRetention == InitRetentionSpec /\ [][NextRetention]_vars

(***************************************************************************)
(* Claims about retention.                                                 *)
(***************************************************************************)
\* newer commits sit on top of older ones
DatesAscend ==
    \A c, d \in DOMAIN rtnDates : c < d => rtnDates[c] <= rtnDates[d]

\* C3 (as claimed): retention by age removes only commits older than the
\* cutoff: when it has returned (every push having succeeded), each commit
\* of the history that is not older than the cutoff is still in the branch,
\* locally and on the remote.
RetentionKeepsNewer ==
    (rtnPc = "returned" /\ DatesAscend /\ ~rtnPushFailed) =>
        \A c \in DOMAIN rtnDates :
            ~OlderThanCutoff(c) => (c <= rtnHead /\ c <= rtnRemote)

\* C4 (as claimed): with retention_days = 0 on a history whose commits are
\* all older than the cutoff, every commit is removed, the root included,
\* and removed equals the number of commits.
RetentionRemovesAll ==
    (/\ rtnPc = "returned" /\ rtnDays = 0 /\ ~rtnPushFailed
     /\ \A c \in DOMAIN rtnDates : OlderThanCutoff(c)) =>
        (rtnRemoved = Len(rtnDates) /\ rtnHead = 0)

\* C15 (as claimed): delete-all clears the local ledger and the marker only
\* after the removal was committed and force-pushed: when they have been
\* cleared, the commit and the force-push of the removal have happened.
ClearedOnlyAfterPush ==
    rtnPc = "cleared" => (rtnCommitted /\ rtnForced)

\* C16: cleanup_old_backups with a number leaves the local ledger and the
\* marker as they are, whatever it removes; a step changes either of them
\* only in a call without a number, which is delete-all.
RetentionKeepsLedger ==
    [][(rtnLedger' # rtnLedger \/ rtnMarker' # rtnMarker) => (rtnAll /\ rtnPc = "clear")]_vars

\* retention by age has returned after removing two commits, and the ledger
\* and the marker are still there
RetentionKeepsLedgerWitness ==
    /\ rtnPc = "returned"
    /\ ~rtnAll
    /\ rtnRemoved >= 2
    /\ rtnLedger /\ rtnMarker

(***************************************************************************)
(* Paths through a backup and a restore.  A path is the sequence of its    *)
(* components; a file's content is named by the absolute path it was read  *)
(* from.  Every source folder holds the files RelPaths; the system files   *)
(* are those of the allow-list that exist and can be read.  Copying,       *)
(* archiving and gpg succeed here: the subject is where files go.          *)
(***************************************************************************)
SourceFolders == {<<"home", "docs">>, <<"home", "pics">>, <<"srv", "docs">>}

RelPaths == {<<"a">>, <<"sub", "b">>}

SystemFiles == {<<"etc", "hosts">>, <<"etc", "ssh", "sshd_config">>}

\* os.path.basename
Basename(path) == path[Len(path)]

\* lines 120-121 and 338 / 370: source_backup_path = <snapshot>/<basename>,
\* dest = source_backup_path/<basename>, and the tree is copied below dest
StagedPath(folder, rel) == <<Basename(folder), Basename(folder)>> \o rel

\* lines 161, 387 and 414-416: system_backup_path is
\* <snapshot>/system_config/system_config, and a file goes below it at
\* os.path.dirname(file_path)[1:] / basename
SystemStagedPath(file) == <<"system_config", "system_config">> \o file

\* lines 1016-1030: rel_path = os.path.relpath(root, source_folder) with
\* source_folder = <snapshot>/<folder_name>; dest = original_path/rel_path/file
RestoreDest(original, stagedPath) == original \o Tail(stagedPath)

\* lines 444-450: an item of the subfolder is archived under its basename,
\* so a member is named by its path below the subfolder
ArchiveMember(stagedPath) == Tail(stagedPath)

\* lines 986 / 1004: tar.extractall(path=original_path)
ExtractDest(original, member) == original \o member

StagedName(stagedPath) == Head(stagedPath)

\* metadata['folders'][name] = path: a later folder of the same name replaces
SetFolder(manifest, name, path) ==
    {m \in manifest : m[1] # name} \cup {<<name, path>>}

\* rsync -a --delete (incremental) or rmtree + copytree (full): the
\* destination subtree becomes a copy of the source folder
StageFolder(staged, folder) ==
    {e \in staged : SubSeq(e.path, 1, 2) # <<Basename(folder), Basename(folder)>>}
    \cup {[path |-> StagedPath(folder, rel), content |-> folder \o rel, gpg |-> FALSE] :
            rel \in RelPaths}

RECURSIVE StageAll(_, _)
StageAll(staged, folders) ==
    IF folders = <<>> THEN staged
    ELSE StageAll(StageFolder(staged, Head(folders)), Tail(folders))

RECURSIVE ManifestOf(_, _)
ManifestOf(manifest, folders) ==
    IF folders = <<>> THEN manifest
    ELSE ManifestOf(SetFolder(manifest, Basename(Head(folders)), Head(folders)),
                    Tail(folders))

StageSystem(staged) ==
    staged \cup {[path |-> SystemStagedPath(f), content |-> f, gpg |-> FALSE] :
                   f \in SystemFiles}

InitTrip ==
    /\ rtPc = "start"
    /\ \E n \in 1..MaxFolders :
          /\ rtFolders \in [1..n -> SourceFolders]
          /\ \A i, j \in 1..n : i # j => rtFolders[i] # rtFolders[j]
    /\ rtOpts \in [backup_system : BOOLEAN, encrypt : BOOLEAN, compress : BOOLEAN,
                   incremental : BOOLEAN]
    /\ rtStaged = {}
    /\ rtArchives = {}
    /\ rtManifest = {}
    /\ rtRestored = {}

\* run, lines 113-186: every folder is staged, then the system files
TripStage ==
    /\ rtPc = "start"
    /\ LET st == StageAll({}, rtFolders)
           mf == ManifestOf({}, rtFolders)
       IN
       IF rtOpts.backup_system
       THEN /\ rtStaged' = StageSystem(st)
            /\ rtManifest' = SetFolder(mf, "system_config", <<"etc">>)
       ELSE /\ rtStaged' = st
            /\ rtManifest' = mf
    /\ rtPc' = "staged"
    /\ UNCHANGED <<rtFolders, rtOpts, rtArchives, rtRestored>>
    /\ UNCHANGED exceptTrip

StagedNames(staged) == {StagedName(e.path) : e \in staged}

\* _process_backup_files, lines 434-492, every call succeeding: with
\* compress each subfolder becomes one archive (encrypted if encrypt);
\* otherwise with encrypt each file becomes its .gpg sibling
TripPackage ==
    /\ rtPc = "staged"
    /\ IF rtOpts.compress
       THEN /\ rtArchives' =
                 {[folder |-> d,
                   members |-> {[path |-> ArchiveMember(e.path), content |-> e.content] :
                                   e \in {x \in rtStaged : StagedName(x.path) = d}},
                   gpg |-> rtOpts.encrypt] : d \in StagedNames(rtStaged)}
            /\ rtStaged' = {}
       ELSE /\ rtStaged' = {[e EXCEPT !.gpg = rtOpts.encrypt] : e \in rtStaged}
            /\ UNCHANGED rtArchives
    /\ rtPc' = "packaged"
    /\ UNCHANGED <<rtFolders, rtOpts, rtManifest, rtRestored>>
    /\ UNCHANGED exceptTrip

\* restore, lines 948-1073, of one folder of the manifest: an archive is
\* (decrypted and) extracted at the original path, a plain tree is walked
RestoredFrom(name, original) ==
    IF \E a \in rtArchives : a.folder = name
    THEN UNION {{[path |-> ExtractDest(original, m.path), content |-> m.content] :
                    m \in a.members} : a \in {x \in rtArchives : x.folder = name}}
    ELSE {[path |-> RestoreDest(original, e.path), content |-> e.content] :
            e \in {x \in rtStaged : StagedName(x.path) = name}}

TripRestore ==
    /\ rtPc = "packaged"
    /\ rtRestored' = UNION {RestoredFrom(m[1], m[2]) : m \in rtManifest}
    /\ rtPc' = "restored"
    /\ UNCHANGED <<rtFolders, rtOpts, rtStaged, rtArchives, rtManifest>>
    /\ UNCHANGED exceptTrip

NextTrip ==
    \/ TripStage
    \/ TripPackage
    \/ TripRestore

InitTripSpec == InitTrip /\ FreshLedger /\ IdlePackage /\ IdleRetention /\ IdleRun /\ IdleRestore /\ IdleSystem /\ IdleArchive /\ IdlePrepare /\ IdleScheduler

SpecRoundTrip == InitTripSpec /\ [][NextTrip]_vars

(***************************************************************************)
(* Claims about the round trip.                                            *)
(***************************************************************************)
\* C26 (as claimed): once the folders are staged, the manifest's folder
\* mapping has one entry per source folder given (plus system_config when
\* requested), from its staged name to its original path, and every file
\* of every source folder is in the staging directory.
EveryFolderStaged ==
    rtPc \in {"staged"} =>
        /\ Cardinality(rtManifest) =
              Len(rtFolders) + (IF rtOpts.backup_system THEN 1 ELSE 0)
        /\ \A i \in DOMAIN rtFolders :
              /\ <<Basename(rtFolders[i]), rtFolders[i]>> \in rtManifest
              /\ \A rel \in RelPaths :
                    \E e \in rtStaged : e.content = rtFolders[i] \o rel

\* the same for folders whose basenames differ
DistinctFoldersStaged ==
    (/\ rtPc \in {"staged"}
     /\ \A i, j \in DOMAIN rtFolders :
           i # j => Basename(rtFolders[i]) # Basename(rtFolders[j])) =>
        /\ Cardinality(rtManifest) =
              Len(rtFolders) + (IF rtOpts.backup_system THEN 1 ELSE 0)
        /\ \A i \in DOMAIN rtFolders :
              /\ <<Basename(rtFolders[i]), rtFolders[i]>> \in rtManifest
              /\ \A rel \in RelPaths :
                    \E e \in rtStaged : e.content = rtFolders[i] \o rel

\* C2 (as claimed): after a backup and the restore of its snapshot, every
\* file F/rel of every source folder F has been written with its content to
\* F/rel, and every collected system file /etc/x to /etc/x.
RoundTripOnPaths ==
    rtPc = "restored" =>
        /\ \A i \in DOMAIN rtFolders : \A rel \in RelPaths :
              [path |-> rtFolders[i] \o rel, content |-> rtFolders[i] \o rel] \in rtRestored
        /\ rtOpts.backup_system =>
              \A f \in SystemFiles : [path |-> f, content |-> f] \in rtRestored

(***************************************************************************)
(* One call of run, followed step by step.  Every step that can raise      *)
(* takes its outcome from the environment.  An exception at any step goes  *)
(* to the handler of lines 322-330, which removes the staging directory    *)
(* if the name is bound and the directory exists, swallowing a failure of  *)
(* the removal, and re-raises.  A git call either returns, and has then    *)
(* done its work, or raises.                                               *)
(***************************************************************************)
GitOp(op, msg) == [op |-> op, msg |-> msg]

BootstrapMsg == "Initialize backup history"

SnapshotMsg == "AutoStash Backup"

LedgerMsg == "Update backup history"

\* what lines 51-61 can find
InputKinds == {"ok", "no_folders", "no_repo", "missing_folder", "unreadable_folder"}

InitRun ==
    /\ runPc = "start"
    /\ runFolders \in 1..MaxRunFolders
    /\ runOpts \in [backup_system : BOOLEAN, compress : BOOLEAN, encrypt : BOOLEAN]
    /\ runInputs \in InputKinds
    /\ runKeys \in {0, 1}
    /\ runSameSnapshot \in BOOLEAN
    /\ runHasLedger \in BOOLEAN
    /\ runClone0 \in {"none", "old"}
    /\ runClone = runClone0
    /\ runBound = FALSE
    /\ runStaging = FALSE
    /\ runStaged = {}
    /\ runIdx = 1
    /\ runGit = <<>>
    /\ runCalls = <<>>
    /\ runMarker = FALSE
    /\ runAppended = FALSE
    /\ runAppendedRepo = FALSE
    /\ runError = ""
    /\ runCleanupFailed = FALSE
    /\ runCompleted = 0
    /\ runProgress = <<>>

\* an exception leaves the try body for the handler
Raise(step) ==
    /\ runPc' = "failing"
    /\ runError' = step

\* the inputs pass as if validated
InputsAssumedValid(inputs) == TRUE

\* lines 51-61: folders and repo_name are not empty, every folder exists
\* and is readable
InputsValid(inputs) == inputs = "ok"

\* lines 51-61: the arguments and every folder are validated
RunValidate ==
    /\ runPc = "start"
    /\ IF InputsValid(runInputs) THEN runPc' = "validated" /\ UNCHANGED runError
       ELSE Raise("validate")
    /\ UNCHANGED <<runFolders, runCompleted, runProgress, runOpts, runInputs, runKeys, runSameSnapshot, runHasLedger,
                   runClone0, runClone, runBound, runStaging, runStaged, runIdx, runGit,
                   runCalls, runMarker, runAppended, runAppendedRepo, runCleanupFailed>>
    /\ UNCHANGED exceptRun

\* lines 71-72 and _repo_exists, 506-518
RunRepoExists(ok) ==
    /\ runPc = "validated"
    /\ IF ok THEN runPc' = "checked" /\ UNCHANGED runError
       ELSE Raise("repo_exists")
    /\ UNCHANGED <<runFolders, runCompleted, runProgress, runOpts, runInputs, runKeys, runSameSnapshot, runHasLedger,
                   runClone0, runClone, runBound, runStaging, runStaged, runIdx, runGit,
                   runCalls, runMarker, runAppended, runAppendedRepo, runCleanupFailed>>
    /\ UNCHANGED exceptRun

PrepareOutcomes ==
    {"ok", "rmtree_fails", "clone_fails", "temp_fails", "commit_fails", "push_fails"}

\* lines 75-78: an exception of _prepare_repo is re-raised
PreparePc(outcome) == IF outcome = "ok" THEN "prepared" ELSE "failing"

\* _prepare_repo, lines 520-582: the old clone is removed, the repository
\* is cloned, temp_backup is made, and a clone without a ledger gets an
\* empty one, committed and pushed
RunPrepare(outcome) ==
    /\ runPc = "checked"
    /\ outcome = "rmtree_fails" => runClone = "old"
    /\ outcome \in {"commit_fails", "push_fails"} => ~runHasLedger
    /\ runClone' = CASE outcome = "rmtree_fails" -> "old"
                     [] outcome = "clone_fails" -> "none"
                     [] OTHER -> "fresh"
    /\ runGit' = CASE outcome \in {"ok"} /\ ~runHasLedger ->
                        runGit \o <<GitOp("commit", BootstrapMsg), GitOp("push", BootstrapMsg)>>
                   [] outcome = "push_fails" ->
                        runGit \o <<GitOp("commit", BootstrapMsg)>>
                   [] OTHER -> runGit
    /\ runHasLedger' = IF outcome = "ok" THEN TRUE ELSE runHasLedger
    /\ runPc' = PreparePc(outcome)
    /\ runError' = IF outcome = "ok" THEN runError ELSE "prepare"
    /\ UNCHANGED <<runFolders, runCompleted, runProgress, runOpts, runInputs, runKeys, runSameSnapshot, runClone0,
                   runBound, runStaging, runStaged, runIdx, runCalls, runMarker, runAppended, runAppendedRepo,
                   runCleanupFailed>>
    /\ UNCHANGED exceptRun

\* lines 65-67: steps = len(folders), one more with backup_system
Steps(folders, opts) == folders + (IF opts.backup_system THEN 1 ELSE 0)

\* the value is that of the step just done
PercentAfterStep(completed, steps) == <<(completed + 1) * 100, steps>>

\* completed / steps * 100, kept as the fraction <<numerator, denominator>>
Percent(completed, steps) == <<completed * 100, steps>>

\* the literals 95 and 100 of lines 225 and 311
Fixed(value) == <<value, 1>>

\* lines 81-93: the name is bound, then the directory is made
RunMakeStaging(ok) ==
    /\ runPc = "prepared"
    /\ runBound' = TRUE
    /\ runStaging' = ok
    /\ IF ok THEN runPc' = "folders" /\ UNCHANGED runError
       ELSE Raise("makedirs")
    /\ UNCHANGED <<runFolders, runCompleted, runProgress, runOpts, runInputs, runKeys, runSameSnapshot, runHasLedger,
                   runClone0, runClone, runStaged, runIdx, runGit, runCalls, runMarker,
                   runAppended, runAppendedRepo, runCleanupFailed>>
    /\ UNCHANGED exceptRun

\* lines 114-154, one iteration: the folder is copied; a failure is
\* re-raised as "Failed to backup folder"
RunCopyFolder(ok) ==
    /\ runPc = "folders"
    /\ runIdx <= runFolders
    /\ runProgress' = Append(runProgress, Percent(runCompleted, Steps(runFolders, runOpts)))
    /\ IF ok
       THEN /\ runStaged' = runStaged \cup {runIdx}
            /\ runIdx' = runIdx + 1
            /\ runCompleted' = runCompleted + 1
            /\ UNCHANGED <<runPc, runError>>
       ELSE /\ Raise("folder")
            /\ UNCHANGED <<runStaged, runIdx, runCompleted>>
    /\ UNCHANGED <<runFolders, runOpts, runInputs, runKeys, runSameSnapshot, runHasLedger,
                   runClone0, runClone, runBound, runStaging, runGit, runCalls, runMarker,
                   runAppended, runAppendedRepo, runCleanupFailed>>
    /\ UNCHANGED exceptRun

\* lines 157-186: the system files, if asked for
RunSystemFiles(ok) ==
    /\ runPc = "folders"
    /\ runIdx > runFolders
    /\ ~ok => runOpts.backup_system
    /\ runProgress' = IF runOpts.backup_system
                     THEN Append(runProgress, Percent(runCompleted, Steps(runFolders, runOpts)))
                     ELSE runProgress
    /\ runCompleted' = IF runOpts.backup_system /\ ok THEN runCompleted + 1 ELSE runCompleted
    /\ IF ok THEN runPc' = "metadata" /\ UNCHANGED runError
       ELSE Raise("system")
    /\ UNCHANGED <<runFolders, runOpts, runInputs, runKeys, runSameSnapshot, runHasLedger,
                   runClone0, runClone, runBound, runStaging, runStaged, runIdx, runGit,
                   runCalls, runMarker, runAppended, runAppendedRepo, runCleanupFailed>>
    /\ UNCHANGED exceptRun

\* lines 203-220: metadata.json is written and read back
RunSaveMetadata(ok) ==
    /\ runPc = "metadata"
    /\ IF ok THEN runPc' = "process" /\ UNCHANGED runError
       ELSE Raise("metadata")
    /\ UNCHANGED <<runFolders, runCompleted, runProgress, runOpts, runInputs, runKeys, runSameSnapshot, runHasLedger,
                   runClone0, runClone, runBound, runStaging, runStaged, runIdx, runGit,
                   runCalls, runMarker, runAppended, runAppendedRepo, runCleanupFailed>>
    /\ UNCHANGED exceptRun

ProcessOutcomes == {"ok", "nokey", "process_fails", "metadata_fails"}

\* a key is taken to be there
KeysAssumed(keys) == TRUE

\* lines 464-466: keys = self.gpg.list_keys(); if not keys: raise
KeysAvailable(keys) == keys > 0

\* the step an outcome of lines 223-294 raises at, "" if none
ProcessError(outcome) ==
    CASE outcome = "ok" -> ""
      [] outcome = "nokey" -> "nokey"
      [] outcome = "process_fails" -> "process"
      [] OTHER -> "metadata"

\* lines 223-294: packaging if compress or encrypt (every staging
\* directory holds a subfolder, so with encrypt the keys are always
\* asked for), the recount, and the second write of metadata.json
RunProcess(outcome) ==
    /\ runPc = "process"
    /\ LET packaging == runOpts.compress \/ runOpts.encrypt
           nokey == runOpts.encrypt /\ ~KeysAvailable(runKeys)
       IN
       /\ outcome = "nokey" => nokey
       /\ outcome = "process_fails" => packaging
       /\ outcome \in {"ok", "metadata_fails"} => ~nokey
    /\ runProgress' = IF runOpts.compress \/ runOpts.encrypt
                     THEN Append(runProgress, Fixed(95))
                     ELSE runProgress
    /\ IF outcome = "ok" THEN runPc' = "commit" /\ UNCHANGED runError
       ELSE Raise(ProcessError(outcome))
    /\ UNCHANGED <<runFolders, runCompleted, runOpts, runInputs, runKeys, runSameSnapshot, runHasLedger,
                   runClone0, runClone, runBound, runStaging, runStaged, runIdx, runGit,
                   runCalls, runMarker, runAppended, runAppendedRepo, runCleanupFailed>>
    /\ UNCHANGED exceptRun

\* origin.push() is GitPython's Remote.push: it raises GitCommandError only
\* when the push fails completely; a push the remote rejects is reported in
\* the PushInfo list it returns, which _git_commit_push does not read
\* ("rejected": the first push returns so; "retry_rejected": the second)
CommitOutcomes ==
    {"ok", "retry_ok", "commit_fails", "push_raises", "pull_fails", "retry_fails", "clean",
     "rejected", "retry_rejected"}

Call(op, ok) == [op |-> op, ok |-> ok]

\* _git_commit_push, lines 584-599, the calls it makes: nothing when the
\* work tree is clean; else add and commit, push, and after a push that
\* raised GitCommandError one pull and one more push ("push_raises": the
\* first push raised another exception)
CommitPushCalls(outcome) ==
    CASE outcome = "ok" -> <<Call("commit", TRUE), Call("push", TRUE)>>
      [] outcome = "retry_ok" ->
           <<Call("commit", TRUE), Call("push", FALSE), Call("pull", TRUE), Call("push", TRUE)>>
      [] outcome = "commit_fails" -> <<Call("commit", FALSE)>>
      [] outcome = "push_raises" -> <<Call("commit", TRUE), Call("push", FALSE)>>
      [] outcome = "pull_fails" ->
           <<Call("commit", TRUE), Call("push", FALSE), Call("pull", FALSE)>>
      [] outcome \in {"retry_fails", "retry_rejected"} ->
           <<Call("commit", TRUE), Call("push", FALSE), Call("pull", TRUE), Call("push", FALSE)>>
      [] outcome = "rejected" -> <<Call("commit", TRUE), Call("push", FALSE)>>
      [] OTHER -> <<>>

RECURSIVE Performed(_)
Performed(calls) ==
    IF calls = <<>> THEN <<>>
    ELSE IF Head(calls).ok THEN <<GitOp(Head(calls).op, SnapshotMsg)>> \o Performed(Tail(calls))
    ELSE Performed(Tail(calls))

\* _git_commit_push, lines 584-599: the operations that were performed
GitCommitPush(log, outcome) == log \o Performed(CommitPushCalls(outcome))

\* the outcomes in which _git_commit_push returns without an exception
CommitPushReturns == {"ok", "retry_ok", "clean", "rejected", "retry_rejected"}

\* lines 297-300: an exception of _git_commit_push is re-raised
CommitPushPc(outcome) ==
    IF outcome \in CommitPushReturns THEN "record" ELSE "failing"

\* lines 297-300
RunCommitPush(outcome) ==
    /\ runPc = "commit"
    /\ outcome = "clean" <=> runSameSnapshot
    /\ runCalls' = CommitPushCalls(outcome)
    /\ runGit' = GitCommitPush(runGit, outcome)
    /\ runPc' = CommitPushPc(outcome)
    /\ runError' = IF outcome \in CommitPushReturns THEN runError ELSE "commit_push"
    /\ UNCHANGED <<runFolders, runCompleted, runProgress, runOpts, runInputs, runKeys, runSameSnapshot, runHasLedger,
                   runClone0, runClone, runBound, runStaging, runStaged, runIdx, runMarker,
                   runAppended, runAppendedRepo, runCleanupFailed>>
    /\ UNCHANGED exceptRun

\* _append_backup_history: it raises before the local ledger is written
\* ("write_fails"), after it and before the clone's ledger is written
\* ("repo_write_fails"), at the commit, at the push, or not at all
AppendOutcomes == {"ok", "write_fails", "repo_write_fails", "commit_fails", "push_fails"}

\* _append_backup_history, lines 682-695: the git operations performed
AppendGit(outcome) ==
    CASE outcome = "ok" -> <<GitOp("commit", LedgerMsg), GitOp("push", LedgerMsg)>>
      [] outcome = "push_fails" -> <<GitOp("commit", LedgerMsg)>>
      [] OTHER -> <<>>

\* the entry is appended whether or not the marker could be written
AppendedThoughUnrecorded(recordOk, outcome) == outcome # "write_fails"

\* lines 303-305, 682-685: the local ledger is appended when
\* _record_backup_time has returned and nothing raised before the write
AppendedLocal(recordOk, outcome) == recordOk /\ outcome # "write_fails"

\* lines 687-690: then the ledger in the clone
AppendedRepo(recordOk, outcome) ==
    recordOk /\ outcome \notin {"write_fails", "repo_write_fails"}

\* lines 303-320: _record_backup_time, then _append_backup_history; a
\* failure of either is logged only and the run returns success
RunRecord(recordOk, outcome) ==
    /\ runPc = "record"
    /\ runMarker' = recordOk
    /\ runAppended' = AppendedLocal(recordOk, outcome)
    /\ runAppendedRepo' = AppendedRepo(recordOk, outcome)
    /\ runGit' = IF recordOk THEN runGit \o AppendGit(outcome) ELSE runGit
    /\ runProgress' = Append(runProgress, Fixed(100))
    /\ runPc' = "success"
    /\ UNCHANGED <<runFolders, runCompleted, runOpts, runInputs, runKeys, runSameSnapshot, runHasLedger,
                   runClone0, runClone, runBound, runStaging, runStaged, runIdx, runCalls,
                   runError, runCleanupFailed>>
    /\ UNCHANGED exceptRun

\* the handler's removal did nothing
CleanupKeepsStaging(bound, staging, rmOk) == staging

\* lines 325-329: what is left of the staging directory
CleanupStaging(bound, staging, rmOk) ==
    IF bound /\ staging THEN ~rmOk ELSE staging

\* lines 322-330
RunHandler(rmOk) ==
    /\ runPc = "failing"
    /\ ~rmOk => (runBound /\ runStaging)
    /\ runStaging' = CleanupStaging(runBound, runStaging, rmOk)
    /\ runCleanupFailed' = ~rmOk
    /\ runPc' = "raised"
    /\ UNCHANGED <<runFolders, runCompleted, runProgress, runOpts, runInputs, runKeys, runSameSnapshot, runHasLedger,
                   runClone0, runClone, runBound, runStaged, runIdx, runGit, runCalls,
                   runMarker, runAppended, runAppendedRepo, runError>>
    /\ UNCHANGED exceptRun

NextRun ==
    \/ RunValidate
    \/ \E ok \in BOOLEAN : RunRepoExists(ok)
    \/ \E outcome \in PrepareOutcomes : RunPrepare(outcome)
    \/ \E ok \in BOOLEAN : RunMakeStaging(ok)
    \/ \E ok \in BOOLEAN : RunCopyFolder(ok)
    \/ \E ok \in BOOLEAN : RunSystemFiles(ok)
    \/ \E ok \in BOOLEAN : RunSaveMetadata(ok)
    \/ \E outcome \in ProcessOutcomes : RunProcess(outcome)
    \/ \E outcome \in CommitOutcomes : RunCommitPush(outcome)
    \/ \E recordOk \in BOOLEAN, outcome \in AppendOutcomes : RunRecord(recordOk, outcome)
    \/ \E rmOk \in BOOLEAN : RunHandler(rmOk)

InitRunSpec == InitRun /\ FreshLedger /\ IdlePackage /\ IdleRetention /\ IdleTrip /\ IdleRestore /\ IdleSystem /\ IdleArchive /\ IdlePrepare /\ IdleScheduler

SpecRun == InitRunSpec /\ [][NextRun]_vars

(***************************************************************************)
(* Claims about a run that fails.                                          *)
(***************************************************************************)
FolderCopyFailed == runPc = "raised" /\ runError = "folder"

NoKeyFailed == runPc = "raised" /\ runError = "nokey"

CallsOf(op) == {i \in DOMAIN runCalls : runCalls[i].op = op}

\* C12 (as claimed): one call of _git_commit_push makes at most one pull and
\* at most two pushes; the pull comes directly after a push that failed, a
\* second push directly after the pull; and when the last call made has
\* failed (the commit, the pull, or the last push) the run fails.
PushRetriedOnce ==
    /\ Cardinality(CallsOf("pull")) <= 1
    /\ Cardinality(CallsOf("push")) <= 2
    /\ \A i \in CallsOf("pull") : i > 1 /\ runCalls[i - 1] = Call("push", FALSE)
    /\ \A i, j \in CallsOf("push") : i < j => (j = i + 2 /\ runCalls[i + 1] = Call("pull", TRUE))
    /\ (runCalls # <<>> /\ ~runCalls[Len(runCalls)].ok) =>
          (runPc \in {"failing", "raised"} /\ runError = "commit_push")

\* the counts and the order of the calls alone
PushCallsBounded ==
    /\ Cardinality(CallsOf("pull")) <= 1
    /\ Cardinality(CallsOf("push")) <= 2
    /\ \A i \in CallsOf("pull") : i > 1 /\ runCalls[i - 1] = Call("push", FALSE)
    /\ \A i, j \in CallsOf("push") : i < j => (j = i + 2 /\ runCalls[i + 1] = Call("pull", TRUE))

\* C13: when the validation of the inputs fails, run raises with the clone
\* as it was (neither deleted nor cloned anew), no staging directory, no
\* commit or push, and neither the ledger nor the marker written.
ValidationPrecedesMutation ==
    runInputs # "ok" =>
        /\ runPc \in {"start", "failing", "raised"}
        /\ runPc # "start" => runError = "validate"
        /\ runClone = runClone0
        /\ ~runBound /\ ~runStaging /\ runStaged = {}
        /\ runGit = <<>> /\ runCalls = <<>>
        /\ ~runMarker /\ ~runAppended

\* a folder of the list does not exist, an old clone is there: run raised
ValidationWitness ==
    /\ runPc = "raised"
    /\ runError = "validate"
    /\ runInputs = "missing_folder"
    /\ runClone0 = "old"

\* the snapshot's content is in the remote repository: a push was performed
\* after the snapshot commit, or the fresh clone already held the identical
\* snapshot and there was nothing to commit
SnapshotInRemote ==
    \/ runSameSnapshot
    \/ \E i, j \in DOMAIN runGit :
          j < i /\ runGit[j] = GitOp("commit", SnapshotMsg) /\ runGit[i].op = "push"

\* C19 (as claimed): the last-run marker is updated and the history entry
\* is written, and the ledger committed, only when the snapshot's commit
\* has been pushed.
HistoryOnlyAfterPush ==
    (runMarker \/ runAppended \/ \E i \in DOMAIN runGit : runGit[i].msg = LedgerMsg) =>
        SnapshotInRemote

\* C20 (as claimed): run returns success only when the repository was
\* cloned and the snapshot commit pushed; when the commit or a push of the
\* snapshot has failed the run raises, and once it has raised the staging
\* directory is deleted.
SyncFailureAborts ==
    /\ runPc = "success" => (runClone = "fresh" /\ SnapshotInRemote)
    /\ (runCalls # <<>> /\ ~runCalls[Len(runCalls)].ok) => runPc \in {"failing", "raised"}
    /\ (runPc = "raised" /\ runError = "commit_push") => ~runStaging

\* the part of C20 about the clone alone
SuccessOnlyIfCloned == runPc = "success" => runClone = "fresh"

\* C27 (as claimed): whenever run has returned success, the local ledger
\* and the ledger in the clone hold the entry of the snapshot and the
\* last-run marker has been updated.
SuccessMeansRecorded ==
    runPc = "success" => (runMarker /\ runAppended /\ runAppendedRepo)

\* C27 (amended): when run has returned success, the entry is in the
\* clone's ledger only if it is in the local ledger, in the local ledger
\* only if the marker was updated, and the ledger was committed only after
\* both files were written; before that point nothing of the three is
\* written.
SuccessRecordsInOrder ==
    /\ runPc = "success" =>
          /\ runAppendedRepo => runAppended
          /\ runAppended => runMarker
          /\ (\E i \in DOMAIN runGit : runGit[i].msg = LedgerMsg) => runAppendedRepo
    /\ runPc # "success" => (~runMarker /\ ~runAppended /\ ~runAppendedRepo)

\* success with the marker and both ledgers written although the push of
\* the ledger commit failed
SuccessRecordsWitness ==
    /\ runPc = "success"
    /\ runMarker /\ runAppended /\ runAppendedRepo
    /\ runGit[Len(runGit)] = GitOp("commit", LedgerMsg)

\* the sink has received a value equal to the fraction v
Reported(v) ==
    \E i \in DOMAIN runProgress : runProgress[i][1] * v[2] = v[1] * runProgress[i][2]

\* steps begun: those done and the one that failed
StepsBegun == runCompleted + (IF runError \in {"folder", "system"} THEN 1 ELSE 0)

\* C23 (as claimed): of a run with n steps, the sink receives k/n*100 for
\* the k-th completed step: by the time a later step is done for every
\* step but the last, and for the last step, where the value is 100, as
\* soon as it is done.
ProgressAfterEachStep ==
    \A k \in 1..runCompleted :
        (k < runCompleted \/ k = Steps(runFolders, runOpts)) =>
            Reported(Percent(k, Steps(runFolders, runOpts)))

\* C23 (amended): the sink receives (k-1)/n*100 when the k-th step begins
\* and nothing when it is done; after the steps it receives 95 if there is
\* packaging, and 100 when and only when the run has succeeded.
ProgressAtStepStart ==
    runPc # "idle" =>
        /\ StepsBegun <= Len(runProgress) /\ Len(runProgress) <= StepsBegun + 2
        /\ \A i \in 1..StepsBegun :
              runProgress[i] = Percent(i - 1, Steps(runFolders, runOpts))
        /\ \A i \in (StepsBegun + 1)..Len(runProgress) :
              runProgress[i] \in {Fixed(95), Fixed(100)}
        /\ Reported(Fixed(95)) =>
              /\ runOpts.compress \/ runOpts.encrypt
              /\ runCompleted = Steps(runFolders, runOpts)
        /\ Reported(Fixed(100)) <=> runPc = "success"
        /\ runPc = "success" => runProgress[Len(runProgress)] = Fixed(100)

\* two folders, system files and compression: 0, 100/3, 200/3, 95, 100
ProgressWitness ==
    /\ runPc = "success"
    /\ runProgress = <<Percent(0, 3), Percent(1, 3), Percent(2, 3), Fixed(95), Fixed(100)>>

(***************************************************************************)
(* restore of one folder stored as a plain tree, file by file.  A file is  *)
(* stored as it was or as its .gpg sibling.  shutil.copy2, the write and   *)
(* the sudo mv may raise; gpg.decrypt_file may raise, may return the       *)
(* plaintext, or may return a result whose ok is False and whose data is   *)
(* empty (the code never reads ok and writes data as it is).               *)
(***************************************************************************)
FileKinds == {"plain", "gpg"}

RestoreOutcomes == {"restored", "raises", "undecrypted"}

InitRestore ==
    /\ rsPc = "start"
    /\ \E n \in 0..MaxRestoreFiles : rsKinds \in [1..n -> FileKinds]
    /\ rsSudo \in BOOLEAN
    /\ rsNext = 1
    /\ rsRestored = 0
    /\ rsFailed = 0
    /\ rsBad = {}
    /\ rsWritten = [i \in DOMAIN rsKinds |-> "nothing"]

\* lines 850-913: repository, snapshot and manifest are found, or restore raises
RsStart(ok) ==
    /\ rsPc = "start"
    /\ rsPc' = IF ok THEN "folder" ELSE "failed"
    /\ UNCHANGED <<rsKinds, rsSudo, rsNext, rsRestored, rsFailed, rsBad, rsWritten>>
    /\ UNCHANGED exceptRestore

\* lines 948-965 and 1075-1078: the destination is made; an exception here
\* is recorded for the folder, and the loop goes on to the next folder
RsFolder(ok) ==
    /\ rsPc = "folder"
    /\ rsPc' = IF ok THEN "files" ELSE "summary"
    /\ rsFailed' = IF ok THEN rsFailed ELSE rsFailed + 1
    /\ UNCHANGED <<rsKinds, rsSudo, rsNext, rsRestored, rsBad, rsWritten>>
    /\ UNCHANGED exceptRestore

\* what is at the destination after a file was handled with this outcome
WrittenAfter(outcome) ==
    CASE outcome = "restored" -> "content"
      [] outcome = "undecrypted" -> "empty"
      [] OTHER -> "nothing"

\* every file handled without an exception is counted
CountsAsRestored(outcome) == outcome # "raises"

\* lines 1028-1073, one file: it is copied or decrypted and counted, or
\* the exception is appended to failed_files
RsRestoreFile(outcome) ==
    /\ rsPc = "files"
    /\ rsNext <= Len(rsKinds)
    /\ outcome = "undecrypted" => rsKinds[rsNext] = "gpg"
    /\ rsWritten' = [rsWritten EXCEPT ![rsNext] = WrittenAfter(outcome)]
    /\ rsRestored' = IF CountsAsRestored(outcome) THEN rsRestored + 1 ELSE rsRestored
    /\ rsFailed' = IF CountsAsRestored(outcome) THEN rsFailed ELSE rsFailed + 1
    /\ rsBad' = IF outcome = "restored" THEN rsBad ELSE rsBad \cup {rsNext}
    /\ rsNext' = rsNext + 1
    /\ UNCHANGED <<rsPc, rsKinds, rsSudo>>
    /\ UNCHANGED exceptRestore

\* the walk is over
RsWalked ==
    /\ rsPc = "files"
    /\ rsNext > Len(rsKinds)
    /\ rsPc' = "summary"
    /\ UNCHANGED <<rsKinds, rsSudo, rsNext, rsRestored, rsFailed, rsBad, rsWritten>>
    /\ UNCHANGED exceptRestore

\* lines 1080-1096: "No files were restored", or the summary is returned
RsFinish ==
    /\ rsPc = "summary"
    /\ rsPc' = IF rsRestored = 0 THEN "nofiles" ELSE "returned"
    /\ UNCHANGED <<rsKinds, rsSudo, rsNext, rsRestored, rsFailed, rsBad, rsWritten>>
    /\ UNCHANGED exceptRestore

NextRestore ==
    \/ \E ok \in BOOLEAN : RsStart(ok)
    \/ \E ok \in BOOLEAN : RsFolder(ok)
    \/ \E outcome \in RestoreOutcomes : RsRestoreFile(outcome)
    \/ RsWalked
    \/ RsFinish

InitRestoreSpec == InitRestore /\ FreshLedger /\ IdlePackage /\ IdleRetention /\ IdleTrip /\ IdleRun /\ IdleSystem /\ IdleArchive /\ IdlePrepare /\ IdleScheduler

SpecRestore == InitRestoreSpec /\ [][NextRestore]_vars

(***************************************************************************)
(* Claims about restore.                                                   *)
(***************************************************************************)
\* C14 (as claimed): when k of the n files of a plain tree, 0 < k < n,
\* could not be restored or decrypted, restore returns success with
\* files_restored = n - k and k entries in failed_files; and restore raises
\* "No files were restored" exactly when files_restored is zero.
RestoreIsolatesFailures ==
    rsPc \in {"returned", "nofiles"} =>
        LET n == Len(rsKinds)
            k == Cardinality(rsBad)
        IN
        /\ (rsNext > n /\ 0 < k /\ k < n) =>
              (rsPc = "returned" /\ rsRestored = n - k /\ rsFailed = k)
        /\ rsPc = "nofiles" <=> rsRestored = 0

(***************************************************************************)
(* _backup_system_files(dest_dir), lines 385-421, file by file.  A file of *)
(* the allow-list is "ok" (it exists and is copied), "missing"             *)
(* (os.path.exists is False), "denied" (makedirs or copy2 raises           *)
(* PermissionError) or "fails" (they raise another exception).             *)
(***************************************************************************)
SystemFileKinds == {"ok", "missing", "denied", "fails"}

InitSystem ==
    /\ syPc = "start"
    /\ syKinds \in [1..NSystemFiles -> SystemFileKinds]
    /\ syNext = 1
    /\ syAttempted = {}
    /\ syCopied = {}

\* lines 387-388: os.makedirs(system_backup_path), outside any try
SyMakeDir(ok) ==
    /\ syPc = "start"
    /\ syPc' = IF ok THEN "loop" ELSE "raised"
    /\ UNCHANGED <<syKinds, syNext, syAttempted, syCopied>>
    /\ UNCHANGED exceptSystem

\* only PermissionError is caught: another exception leaves the function
CopyFailureRaises(kind) == IF kind = "fails" THEN "raised" ELSE "loop"

\* lines 413-421: except PermissionError and except Exception both log
\* and fall through to the next file
AfterCopy(kind) == "loop"

\* lines 412-421: one file of critical_files
SyFile ==
    /\ syPc = "loop"
    /\ syNext <= Len(syKinds)
    /\ LET kind == syKinds[syNext] IN
       /\ syAttempted' = IF kind = "missing" THEN syAttempted ELSE syAttempted \cup {syNext}
       /\ syCopied' = IF kind = "ok" THEN syCopied \cup {syNext} ELSE syCopied
       /\ syPc' = AfterCopy(kind)
    /\ syNext' = syNext + 1
    /\ UNCHANGED syKinds
    /\ UNCHANGED exceptSystem

\* the list is exhausted: the function returns
SyReturn ==
    /\ syPc = "loop"
    /\ syNext > Len(syKinds)
    /\ syPc' = "returned"
    /\ UNCHANGED <<syKinds, syNext, syAttempted, syCopied>>
    /\ UNCHANGED exceptSystem

NextSystem ==
    \/ \E ok \in BOOLEAN : SyMakeDir(ok)
    \/ SyFile
    \/ SyReturn

InitSystemSpec == InitSystem /\ FreshLedger /\ IdlePackage /\ IdleRetention /\ IdleTrip /\ IdleRun /\ IdleRestore /\ IdleArchive /\ IdlePrepare /\ IdleScheduler

SpecSystem == InitSystemSpec /\ [][NextSystem]_vars

\* C24: whatever files of the allow-list are missing, unreadable or fail
\* to copy, the collector does not raise once it is at the files, and when
\* it has returned it has attempted every file that exists and every
\* readable file is in the destination.
SystemFilesNeverAbort ==
    /\ syPc = "raised" => (syNext = 1 /\ syAttempted = {})
    /\ syPc = "returned" =>
          /\ syAttempted = {i \in DOMAIN syKinds : syKinds[i] # "missing"}
          /\ syCopied = {i \in DOMAIN syKinds : syKinds[i] = "ok"}

\* the collector has returned after a file that failed to copy and an
\* unreadable one, with a later file copied
SystemFilesWitness ==
    /\ syPc = "returned"
    /\ \E i, j, k \in DOMAIN syKinds :
          /\ i < k /\ j < k
          /\ syKinds[i] = "fails" /\ syKinds[j] = "denied"
          /\ k \in syCopied

(***************************************************************************)
(* restore, lines 948-996 and 1075-1078: the folders of a snapshot that    *)
(* are stored as backup.tar.gz.gpg, step by step.  The archive is          *)
(* decrypted into /tmp/temp_backup.tar.gz, extracted at the original path, *)
(* its members are counted, and a finally clause removes the file.         *)
(***************************************************************************)
InitArchive ==
    /\ arPc = "next"
    /\ arFolders \in 1..MaxArchives
    /\ arNext = 1
    /\ arSudo \in BOOLEAN
    /\ arTemp = FALSE
    /\ arRaised = ""
    /\ arDone = {}
    /\ arFailed = {}

\* lines 948-973: the destination directory is made (mkdir -p through
\* sudo, or os.makedirs); a failure goes to the handler of the folder
ArBegin(ok) ==
    /\ arPc = "next"
    /\ arNext <= arFolders
    /\ IF ok THEN arPc' = "decrypt" /\ UNCHANGED <<arNext, arFailed>>
       ELSE /\ arFailed' = arFailed \cup {<<arNext, "mkdir">>}
            /\ arNext' = arNext + 1
            /\ arPc' = "next"
    /\ UNCHANGED <<arFolders, arSudo, arTemp, arRaised, arDone>>
    /\ UNCHANGED exceptArchive

\* lines 975-976: open the .gpg archive and gpg.decrypt_file, which
\* returns (decrypted or not) or raises
ArDecrypt(ok) ==
    /\ arPc = "decrypt"
    /\ arRaised' = IF ok THEN "" ELSE "decrypt"
    /\ arPc' = IF ok THEN "write" ELSE "finally"
    /\ UNCHANGED <<arFolders, arNext, arSudo, arTemp, arDone, arFailed>>
    /\ UNCHANGED exceptArchive

TempWriteOutcomes == {"written", "partial", "not_created"}

\* lines 977-978: open(temp_file, 'wb') creates the file, f.write fills it
ArWriteTemp(outcome) ==
    /\ arPc = "write"
    /\ arTemp' = (arTemp \/ outcome # "not_created")
    /\ arRaised' = IF outcome = "written" THEN "" ELSE "write"
    /\ arPc' = IF outcome = "written" THEN "extract" ELSE "finally"
    /\ UNCHANGED <<arFolders, arNext, arSudo, arDone, arFailed>>
    /\ UNCHANGED exceptArchive

\* lines 981-985: tar -xzf through sudo, or tarfile.extractall
ArExtract(ok) ==
    /\ arPc = "extract"
    /\ arRaised' = IF ok THEN "" ELSE "extract"
    /\ arPc' = IF ok THEN "count" ELSE "finally"
    /\ UNCHANGED <<arFolders, arNext, arSudo, arTemp, arDone, arFailed>>
    /\ UNCHANGED exceptArchive

\* lines 988-990: the members of the archive are counted
ArCount(ok) ==
    /\ arPc = "count"
    /\ arRaised' = IF ok THEN "" ELSE "count"
    /\ arPc' = "finally"
    /\ UNCHANGED <<arFolders, arNext, arSudo, arTemp, arDone, arFailed>>
    /\ UNCHANGED exceptArchive

\* the file is removed on the path without exception only
TempKeptOnFailure(temp, raised) == temp /\ raised # ""

\* lines 993-995: finally: if os.path.exists(temp_file): os.remove(temp_file)
TempAfterCleanup(temp, raised) == FALSE

\* lines 993-995, then the next folder, through the handler of lines
\* 1075-1078 when the step raised
ArFinally ==
    /\ arPc = "finally"
    /\ arTemp' = TempAfterCleanup(arTemp, arRaised)
    /\ IF arRaised # "" THEN arFailed' = arFailed \cup {<<arNext, arRaised>>} /\ UNCHANGED arDone
       ELSE arDone' = arDone \cup {arNext} /\ UNCHANGED arFailed
    /\ arRaised' = ""
    /\ arNext' = arNext + 1
    /\ arPc' = "next"
    /\ UNCHANGED <<arFolders, arSudo>>
    /\ UNCHANGED exceptArchive

\* the loop over the folders is over
ArEnd ==
    /\ arPc = "next"
    /\ arNext > arFolders
    /\ arPc' = "ended"
    /\ UNCHANGED <<arFolders, arNext, arSudo, arTemp, arRaised, arDone, arFailed>>
    /\ UNCHANGED exceptArchive

NextArchive ==
    \/ \E ok \in BOOLEAN : ArBegin(ok)
    \/ \E ok \in BOOLEAN : ArDecrypt(ok)
    \/ \E outcome \in TempWriteOutcomes : ArWriteTemp(outcome)
    \/ \E ok \in BOOLEAN : ArExtract(ok)
    \/ \E ok \in BOOLEAN : ArCount(ok)
    \/ ArFinally
    \/ ArEnd

InitArchiveSpec == InitArchive /\ FreshLedger /\ IdlePackage /\ IdleRetention /\ IdleTrip /\ IdleRun /\ IdleRestore /\ IdleSystem /\ IdlePrepare /\ IdleScheduler

SpecArchive == InitArchiveSpec /\ [][NextArchive]_vars

\* C22: whenever the restore step of a folder stored as an encrypted
\* archive has ended, with or without a failure of the decryption, the
\* extraction or the count, the decrypted file /tmp/temp_backup.tar.gz
\* does not exist.
TransientArchiveRemoved ==
    arPc \in {"next", "ended"} => ~arTemp

\* the loop has ended after a folder restored and a folder whose
\* extraction failed, the decrypted file being written
TransientArchiveWitness ==
    /\ arPc = "ended"
    /\ arDone # {}
    /\ \E f \in 1..arFolders : <<f, "extract">> \in arFailed
    /\ ~arTemp

(***************************************************************************)
(* _prepare_repo(repo_name), lines 520-582, step by step.  A directory is  *)
(* known by the items in it.  The local clone directory may hold anything  *)
(* a former run or the user left; the remote holds snapshots, possibly the *)
(* ledger, possibly a file below temp_backup.                              *)
(***************************************************************************)
LocalLeftovers == {"stale_snapshot", "edited_ledger", "failed_staging"}

RemoteItems == {"snapshot", "backup_history", "temp_backup/file"}

Dir(items) == [exists |-> TRUE, items |-> items]

NoDir == [exists |-> FALSE, items |-> {}]

InitPrepare ==
    /\ prPc = "start"
    /\ prName \in {"ok", "malformed"}
    /\ prWork0 \in {NoDir} \cup {Dir(items) : items \in SUBSET LocalLeftovers}
    /\ prWork = prWork0
    /\ prRemote0 \in SUBSET RemoteItems
    /\ prRemote = prRemote0
    /\ prGit = <<>>

\* lines 523-525: if not repo_name or '/' not in repo_name: raise
PrValidate ==
    /\ prPc = "start"
    /\ prPc' = IF prName = "ok" THEN "remove" ELSE "raised"
    /\ UNCHANGED <<prName, prWork0, prWork, prRemote0, prRemote, prGit>>
    /\ UNCHANGED exceptPrepare

\* the existing directory is kept
CloneKept(work) == work

\* line 530: shutil.rmtree(self.repo_path)
Removed(work) == NoDir

\* lines 528-538: the existing directory is removed with shutil.rmtree, the
\* parent directory is made; a failure of rmtree may leave any part of it
PrRemove(ok, left) ==
    /\ prPc = "remove"
    /\ left \subseteq prWork.items
    /\ ~ok => prWork.exists
    /\ prWork' = IF ok THEN Removed(prWork) ELSE Dir(left)
    /\ prPc' = IF ok THEN "clone" ELSE "raised"
    /\ UNCHANGED <<prName, prWork0, prRemote0, prRemote, prGit>>
    /\ UNCHANGED exceptPrepare

\* line 545: Repo.clone_from(repo_url, self.repo_path) fills the directory,
\* which does not exist or is empty, with the remote's content
ClonedFrom(work, remote) == Dir(work.items \cup remote)

\* lines 543-554
PrClone(ok) ==
    /\ prPc = "clone"
    /\ prWork' = IF ok THEN ClonedFrom(prWork, prRemote) ELSE prWork
    /\ prPc' = IF ok THEN "scratch" ELSE "raised"
    /\ UNCHANGED <<prName, prWork0, prRemote0, prRemote, prGit>>
    /\ UNCHANGED exceptPrepare

\* lines 557-565: temp_backup is removed if the clone holds it and made
\* anew, empty
PrScratch(ok) ==
    /\ prPc = "scratch"
    /\ IF ok
       THEN /\ prWork' = Dir((prWork.items \ {"temp_backup/file"}) \cup {"temp_backup"})
            /\ prPc' = "ledger"
       ELSE /\ UNCHANGED prWork
            /\ prPc' = "raised"
    /\ UNCHANGED <<prName, prWork0, prRemote0, prRemote, prGit>>
    /\ UNCHANGED exceptPrepare

BootstrapOutcomes == {"ok", "write_fails", "commit_fails", "push_fails"}

\* lines 568-578: a clone without backup_history gets an empty one, added,
\* committed and pushed with repo.git.push(), which raises when it fails
PrBootstrap(outcome) ==
    /\ prPc = "ledger"
    /\ outcome # "ok" => "backup_history" \notin prWork.items
    /\ IF "backup_history" \in prWork.items
       THEN UNCHANGED <<prWork, prRemote, prGit>>
       ELSE /\ prWork' = IF outcome = "write_fails" THEN prWork
                         ELSE Dir(prWork.items \cup {"backup_history"})
            /\ prGit' = CASE outcome = "ok" ->
                               <<GitOp("commit", BootstrapMsg), GitOp("push", BootstrapMsg)>>
                          [] outcome = "push_fails" -> <<GitOp("commit", BootstrapMsg)>>
                          [] OTHER -> <<>>
            /\ prRemote' = IF outcome = "ok" THEN prRemote \cup {"backup_history"}
                           ELSE prRemote
    /\ prPc' = IF outcome = "ok" THEN "done" ELSE "raised"
    /\ UNCHANGED <<prName, prWork0, prRemote0>>
    /\ UNCHANGED exceptPrepare

NextPrepare ==
    \/ PrValidate
    \/ \E ok \in BOOLEAN, left \in SUBSET LocalLeftovers : PrRemove(ok, left)
    \/ \E ok \in BOOLEAN : PrClone(ok)
    \/ \E ok \in BOOLEAN : PrScratch(ok)
    \/ \E outcome \in BootstrapOutcomes : PrBootstrap(outcome)

InitPrepareSpec == InitPrepare /\ FreshLedger /\ IdlePackage /\ IdleRetention /\ IdleTrip /\ IdleRun /\ IdleRestore /\ IdleSystem /\ IdleArchive /\ IdleScheduler

SpecPrepare == InitPrepareSpec /\ [][NextPrepare]_vars

\* C21: when _prepare_repo has succeeded, the working copy holds nothing
\* of what the clone directory held before, only what the remote held, an
\* empty temp_backup and the ledger, which was committed and pushed if the
\* remote had none; and with a malformed name the directory stays as it was.
PrepareGivesCleanBase ==
    /\ prPc = "done" =>
          /\ prWork.exists
          /\ prWork.items \cap LocalLeftovers = {}
          /\ prWork.items \subseteq (prRemote0 \cup {"temp_backup", "backup_history"})
          /\ "temp_backup" \in prWork.items /\ "temp_backup/file" \notin prWork.items
          /\ "backup_history" \in prWork.items
          /\ IF "backup_history" \in prRemote0 THEN prGit = <<>>
             ELSE /\ prGit = <<GitOp("commit", BootstrapMsg), GitOp("push", BootstrapMsg)>>
                  /\ "backup_history" \in prRemote
    /\ prName = "malformed" => (prWork = prWork0 /\ prPc \in {"start", "raised"})

\* the directory held leftovers and the remote had snapshots but no
\* ledger: the call succeeded and the ledger is pushed
PrepareWitness ==
    /\ prPc = "done"
    /\ prWork0 = Dir(LocalLeftovers)
    /\ prRemote0 = {"snapshot", "temp_backup/file"}
    /\ prWork = Dir({"snapshot", "temp_backup", "backup_history"})

(***************************************************************************)
(* The scheduler (src/core/scheduler.py): one caller, the GUI thread       *)
(* (main.py, set_schedule), makes setup_schedule and remove_schedule       *)
(* calls one after another; every statement of a call is a step of its     *)
(* own, interleaved with the steps of the schedule threads.  A thread is   *)
(* known by the number of the call that made it.  No lock is taken         *)
(* anywhere in the module.                                                 *)
(***************************************************************************)
Configs == 1..MaxConfigs

\* a configuration whose 'hour' or 'minute' is not a number (an empty
\* entry field): int() raises in the schedule thread
Malformed == -1

\* the script_path argument: two paths tell a stale one from a new one
Scripts == {1, 2}

Threads == 1..MaxCalls

\* Thread.is_alive(): started and not finished
IsAlive(t) == thPc[t] \notin {"unborn", "dead"}

Unread == [hour |-> 0, minute |-> 0, frequency |-> 0]

InitScheduler ==
    /\ running = FALSE
    /\ current_schedule = NoSchedule
    /\ script_path = 0
    /\ schedule_thread = 0
    /\ scPc = "idle"
    /\ scCalls = 0
    /\ scArg = [config |-> 0, script |-> 0]
    /\ scLast = [call |-> 0, kind |-> "none", config |-> 0, script |-> 0]
    /\ scRemoved = 0
    /\ thPc = [t \in Threads |-> "unborn"]
    /\ thRead = [t \in Threads |-> Unread]
    /\ scLaunch = NoLaunch

\* line 19: self.current_schedule = schedule_config
SetupConfig(config, script) ==
    /\ scPc = "idle"
    /\ scCalls < MaxCalls
    /\ scCalls' = scCalls + 1
    /\ scArg' = [config |-> config, script |-> script]
    /\ current_schedule' = config
    /\ scPc' = "setup_script"
    /\ UNCHANGED <<running, script_path, schedule_thread, scLast, scRemoved, thPc, thRead, scLaunch>>
    /\ UNCHANGED exceptScheduler

\* line 20: self.script_path = script_path
SetupScript ==
    /\ scPc = "setup_script"
    /\ script_path' = scArg.script
    /\ scPc' = "setup_alive"
    /\ UNCHANGED <<running, current_schedule, schedule_thread, scCalls, scArg, scLast, scRemoved, thPc, thRead, scLaunch>>
    /\ UNCHANGED exceptScheduler

\* line 23: if self.schedule_thread and self.schedule_thread.is_alive()
SetupAlive ==
    /\ scPc = "setup_alive"
    /\ scPc' = IF schedule_thread # 0 /\ IsAlive(schedule_thread)
               THEN "setup_stop" ELSE "setup_run"
    /\ UNCHANGED <<running, current_schedule, script_path, schedule_thread, scCalls, scArg, scLast, scRemoved, thPc, thRead, scLaunch>>
    /\ UNCHANGED exceptScheduler

\* line 24: self.running = False
SetupStop ==
    /\ scPc = "setup_stop"
    /\ running' = FALSE
    /\ scPc' = "setup_join"
    /\ UNCHANGED <<current_schedule, script_path, schedule_thread, scCalls, scArg, scLast, scRemoved, thPc, thRead, scLaunch>>
    /\ UNCHANGED exceptScheduler

\* join returns at once
JoinSkipped(t) == TRUE

\* Thread.join() returns when the thread has finished
Joined(t) == ~IsAlive(t)

\* line 25: self.schedule_thread.join()
SetupJoin ==
    /\ scPc = "setup_join"
    /\ Joined(schedule_thread)
    /\ scPc' = "setup_run"
    /\ UNCHANGED <<running, current_schedule, script_path, schedule_thread, scCalls, scArg, scLast, scRemoved, thPc, thRead, scLaunch>>
    /\ UNCHANGED exceptScheduler

\* line 28: self.running = True
SetupRun ==
    /\ scPc = "setup_run"
    /\ running' = TRUE
    /\ scPc' = "setup_start"
    /\ UNCHANGED <<current_schedule, script_path, schedule_thread, scCalls, scArg, scLast, scRemoved, thPc, thRead, scLaunch>>
    /\ UNCHANGED exceptScheduler

\* lines 29-36: the thread is made and started and the call returns True;
\* a start that fails (RuntimeError) leaves the thread object unstarted and
\* the call raises
SetupStart(ok) ==
    /\ scPc = "setup_start"
    /\ schedule_thread' = scCalls
    /\ thPc' = IF ok THEN [thPc EXCEPT ![scCalls] = "while"] ELSE thPc
    /\ scLast' = [call |-> scCalls, kind |-> IF ok THEN "setup" ELSE "setup_raised",
                  config |-> scArg.config, script |-> scArg.script]
    /\ scPc' = "idle"
    /\ UNCHANGED <<running, current_schedule, script_path, scCalls, scArg, scRemoved, thRead, scLaunch>>
    /\ UNCHANGED exceptScheduler

\* line 41: if self.schedule_thread and self.schedule_thread.is_alive()
RemoveAlive ==
    /\ scPc = "idle"
    /\ scCalls < MaxCalls
    /\ scCalls' = scCalls + 1
    /\ scArg' = [config |-> 0, script |-> 0]
    /\ scPc' = IF schedule_thread # 0 /\ IsAlive(schedule_thread)
               THEN "remove_stop" ELSE "remove_clear"
    /\ UNCHANGED <<running, current_schedule, script_path, schedule_thread, scLast, scRemoved, thPc, thRead, scLaunch>>
    /\ UNCHANGED exceptScheduler

\* line 42: self.running = False
RemoveStop ==
    /\ scPc = "remove_stop"
    /\ running' = FALSE
    /\ scPc' = "remove_join"
    /\ UNCHANGED <<current_schedule, script_path, schedule_thread, scCalls, scArg, scLast, scRemoved, thPc, thRead, scLaunch>>
    /\ UNCHANGED exceptScheduler

\* line 43: self.schedule_thread.join()
RemoveJoin ==
    /\ scPc = "remove_join"
    /\ Joined(schedule_thread)
    /\ scPc' = "remove_clear"
    /\ UNCHANGED <<running, current_schedule, script_path, schedule_thread, scCalls, scArg, scLast, scRemoved, thPc, thRead, scLaunch>>
    /\ UNCHANGED exceptScheduler

\* lines 44-45: self.current_schedule = None; return True
RemoveClear ==
    /\ scPc = "remove_clear"
    /\ current_schedule' = NoSchedule
    /\ scLast' = [call |-> scCalls, kind |-> "remove", config |-> 0, script |-> 0]
    /\ scRemoved' = scCalls
    /\ scPc' = "idle"
    /\ UNCHANGED <<running, script_path, schedule_thread, scCalls, scArg, thPc, thRead, scLaunch>>
    /\ UNCHANGED exceptScheduler

\* line 65: while self.running
ThWhile(t) ==
    /\ thPc[t] = "while"
    /\ thPc' = [thPc EXCEPT ![t] = IF running THEN "hour" ELSE "dead"]
    /\ thRead' = [thRead EXCEPT ![t] = Unread]
    /\ UNCHANGED <<running, current_schedule, script_path, schedule_thread, scPc, scCalls, scArg, scLast, scRemoved, scLaunch>>
    /\ UNCHANGED exceptScheduler

\* self.current_schedule[key] of None, or int() of what is not a number
ReadRaises(schedule) == schedule \in {NoSchedule, Malformed}

\* lines 68, 69: hour = int(self.current_schedule['hour']), and the same
\* for the minute, each a read of self.current_schedule of its own
ThRead(t, key, after) ==
    /\ thPc[t] = key
    /\ IF ReadRaises(current_schedule)
       THEN /\ thPc' = [thPc EXCEPT ![t] = "except"]
            /\ UNCHANGED thRead
       ELSE /\ thPc' = [thPc EXCEPT ![t] = after]
            /\ thRead' = [thRead EXCEPT ![t][key] = current_schedule]
    /\ UNCHANGED <<running, current_schedule, script_path, schedule_thread, scPc, scCalls, scArg, scLast, scRemoved, scLaunch>>
    /\ UNCHANGED exceptScheduler

\* lines 73-82: the frequency is read only when the time of day has passed
ThFrequency(t, passed) ==
    /\ thPc[t] = "frequency"
    /\ IF ~passed
       THEN /\ thPc' = [thPc EXCEPT ![t] = "sleep"]
            /\ UNCHANGED thRead
       ELSE IF current_schedule = NoSchedule
       THEN /\ thPc' = [thPc EXCEPT ![t] = "except"]
            /\ UNCHANGED thRead
       ELSE /\ thPc' = [thPc EXCEPT ![t] = "sleep"]
            /\ thRead' = [thRead EXCEPT ![t].frequency = current_schedule]
    /\ UNCHANGED <<running, current_schedule, script_path, schedule_thread, scPc, scCalls, scArg, scLast, scRemoved, scLaunch>>
    /\ UNCHANGED exceptScheduler

\* lines 85-87: time.sleep(sleep_seconds) ends
ThSleep(t) ==
    /\ thPc[t] = "sleep"
    /\ thPc' = [thPc EXCEPT ![t] = "running"]
    /\ UNCHANGED <<running, current_schedule, script_path, schedule_thread, scPc, scCalls, scArg, scLast, scRemoved, thRead, scLaunch>>
    /\ UNCHANGED exceptScheduler

\* line 90: if self.running
ThRunning(t) ==
    /\ thPc[t] = "running"
    /\ thPc' = [thPc EXCEPT ![t] = IF running THEN "launch" ELSE "while"]
    /\ UNCHANGED <<running, current_schedule, script_path, schedule_thread, scPc, scCalls, scArg, scLast, scRemoved, thRead, scLaunch>>
    /\ UNCHANGED exceptScheduler

\* lines 91-92: subprocess.run([python_path, self.script_path, "--backup"])
\* starts the backup
ThLaunch(t) ==
    /\ thPc[t] = "launch"
    /\ scLaunch' = [thread |-> t, hour |-> thRead[t].hour, minute |-> thRead[t].minute,
                    script |-> script_path, quiet |-> scPc = "idle",
                    last |-> scLast, removed |-> scRemoved]
    /\ thPc' = [thPc EXCEPT ![t] = "backup"]
    /\ UNCHANGED <<running, current_schedule, script_path, schedule_thread, scPc, scCalls, scArg, scLast, scRemoved, thRead>>
    /\ UNCHANGED exceptScheduler

\* line 92: subprocess.run returns when the backup has ended, whatever its
\* exit status (check is not set)
ThBackupEnds(t) ==
    /\ thPc[t] = "backup"
    /\ thPc' = [thPc EXCEPT ![t] = "while"]
    /\ UNCHANGED <<running, current_schedule, script_path, schedule_thread, scPc, scCalls, scArg, scLast, scRemoved, thRead, scLaunch>>
    /\ UNCHANGED exceptScheduler

\* lines 94-96: the error is printed, the thread sleeps a minute and goes on
ThExcept(t) ==
    /\ thPc[t] = "except"
    /\ thPc' = [thPc EXCEPT ![t] = "while"]
    /\ UNCHANGED <<running, current_schedule, script_path, schedule_thread, scPc, scCalls, scArg, scLast, scRemoved, thRead, scLaunch>>
    /\ UNCHANGED exceptScheduler

NextScheduler ==
    \/ \E config \in Configs \cup {Malformed}, script \in Scripts : SetupConfig(config, script)
    \/ SetupScript
    \/ SetupAlive
    \/ SetupStop
    \/ SetupJoin
    \/ SetupRun
    \/ \E ok \in BOOLEAN : SetupStart(ok)
    \/ RemoveAlive
    \/ RemoveStop
    \/ RemoveJoin
    \/ RemoveClear
    \/ \E t \in Threads : ThWhile(t)
    \/ \E t \in Threads : ThRead(t, "hour", "minute")
    \/ \E t \in Threads : ThRead(t, "minute", "frequency")
    \/ \E t \in Threads, passed \in BOOLEAN : ThFrequency(t, passed)
    \/ \E t \in Threads : ThSleep(t)
    \/ \E t \in Threads : ThRunning(t)
    \/ \E t \in Threads : ThLaunch(t)
    \/ \E t \in Threads : ThBackupEnds(t)
    \/ \E t \in Threads : ThExcept(t)

InitSchedulerSpec == InitScheduler /\ FreshLedger /\ IdlePackage /\ IdleRetention /\ IdleTrip /\ IdleRun /\ IdleRestore /\ IdleSystem /\ IdleArchive /\ IdlePrepare

SpecScheduler == InitSchedulerSpec /\ [][NextScheduler]_vars

\* what thread t has read of the configuration in this turn of the loop
\* is configuration c
ReadOnly(t, c) ==
    \A key \in {"hour", "minute", "frequency"} : thRead[t][key] \in {0, c}

\* C30: at most one schedule thread is alive; a thread alive was made after
\* the last remove_schedule that has returned, so none launches a backup
\* after it; and when setup_schedule has returned and no later call has
\* begun, the only thread alive is the one that call started, what it has
\* read is the call's configuration, and a backup launched then was
\* launched by it with that configuration and script.
OneScheduleThread ==
    /\ Cardinality({t \in Threads : IsAlive(t)}) <= 1
    /\ \A t \in Threads : IsAlive(t) => t > scRemoved
    /\ scLaunch.thread # 0 => scLaunch.thread > scLaunch.removed
    /\ (scPc = "idle" /\ scLast.kind = "setup") =>
          \A t \in Threads : IsAlive(t) => (t = scLast.call /\ ReadOnly(t, scLast.config))
    /\ (scLaunch.quiet /\ scLaunch.last.kind = "setup") =>
          /\ scLaunch.thread = scLaunch.last.call
          /\ scLaunch.hour = scLaunch.last.config
          /\ scLaunch.minute = scLaunch.last.config
          /\ scLaunch.script = scLaunch.last.script
    /\ (scLaunch.quiet /\ scLaunch.thread # 0) => scLaunch.last.kind = "setup"

\* a second setup_schedule has stopped the thread of the first, and the
\* thread it started has launched a backup with the new configuration
\* after the call returned
OneScheduleThreadWitness ==
    /\ scLast.kind = "setup" /\ scLast.call = 2
    /\ thPc[1] = "dead"
    /\ scLaunch.thread = 2 /\ scLaunch.quiet
    /\ scLaunch.hour = scLast.config
    /\ thPc[2] = "backup"

====
